---- MODULE Spec2Model ----
(***************************************************************************)
(* Configuration handling of ovnkube (go-controller/pkg/config/config.go)  *)
(* and the process start-up that consumes it (cmd/ovnkube/ovnkube.go).     *)
(*                                                                         *)
(* Go strings are modelled as sequences of tokens.  A token is either one  *)
(* of the delimiter characters the code looks at (":", "/", ",", ".", "[", *)
(* "]", the double quote) or a maximal run of characters that contains     *)
(* none of them ("tcp", "6641", "foobar").  The empty string is the empty  *)
(* sequence.  Splitting, replacing and joining are computed on these       *)
(* sequences the way the Go library computes them on bytes.  File paths,   *)
(* command names and database keys are only compared, concatenated and     *)
(* looked up, never split: each is a token, or the tokens it is            *)
(* concatenated from ("ovn-" + direction + "ctl").                         *)
(***************************************************************************)
EXTENDS Integers, Sequences, FiniteSets, TLC

\* ------------------------------------------------------------------ bounds

\* Longest list of database addresses in one connection string.
MaxAddrs == 2

\* ------------------------------------------------------------------ state

VARIABLES
    ovnAddrs,    \* the connection string as a list of elements
    urlString,   \* the connection string handed to newOvnDBAuth
    privkey,     \* arguments of newOvnDBAuth
    cert,
    cacert,
    ret          \* what newOvnDBAuth returned: [done, err, auth]

VARIABLES
    cliConfig,       \* the flag destinations
    configFileFlag,  \* ctx.String("config-file")
    confFileAt,      \* the path a config file is at, "" when there is none
    confFileOK,      \* whether gcfg can parse it
    fileCfg,         \* what gcfg reads from it
    externalIDs,     \* Open_vSwitch external_ids
    ovsUp,           \* whether ovs-vsctl can be run
    files,           \* the paths that exist
    given,           \* options given so far
    Default, Logging, CNI, Kubernetes, OvnNorth, OvnSouth,   \* the globals
    logOutput,       \* where logrus writes
    defaults,        \* the Defaults InitConfig was called with
    initRet          \* the configFile InitConfigWithPath was given and what it
                     \* returned: [done, arg, path, err]

VARIABLES
    runFlags,        \* -init-master, -init-node, -net-controller as given
    pc,              \* where the process is: "main", "returned", "serving", "exited"
    runErr,          \* the error runOvnKube returned
    started,         \* the controllers started
    exitStatus,      \* the exit status, -1 while the process runs
    panicMsg,        \* what runOvnKube panicked with
    runCalls,        \* the calls runOvnKube made, in order
    clusterController \* ClusterIPNet and ClusterServicesSubnet of the cluster controller

VARIABLES
    dbAuth,          \* the OvnDBAuth SetDBAuth is called on
    ovsSSL,          \* the SSL row of Open_vSwitch: <<>> or <<privkey, cert, cacert>>
    cmds,            \* the commands run, in order
    dbRet            \* what SetDBAuth returned: [done, err]

VARIABLES
    subnetItems,      \* the cluster-subnet option as a list of items
    clusterSubnetCmd, \* the cluster-subnet option handed to parseClusterSubnetEntries
    subnetRet         \* what parseClusterSubnetEntries returned: [done, err, list]

VARIABLES
    mgmtArgs,         \* the arguments of CreateManagementPort
    mgmtCmds,         \* the commands it ran, in order
    mgmtRet,          \* what it returned: [done, err]
    mgmtHost,         \* what the commands act on: the bridges, the ports, the
                      \* logical switch ports, the links up, the addresses, the
                      \* routes and the neighbour entries of the node
    mgmtAgain         \* a second call with the same arguments:
                      \* [done, err, cmds, before]

VARIABLES
    nodeArgs,         \* the addresses of a node and the masterIP of UpdateOvnNodeAuth
    updRet            \* what UpdateOvnNodeAuth returned: [done, err]

VARIABLES
    pidfileExists,    \* whether there is a file at the -pidfile path
    pidfileData,      \* what it holds
    dirWritable,      \* whether a file can be written or removed at that path
    procs             \* the ovnkube processes started with that -pidfile, by pid:
                      \* [pc, handler, pid, end, exit]

authVars == <<ovnAddrs, urlString, privkey, cert, cacert, ret>>
envVars  == <<cliConfig, configFileFlag, confFileAt, confFileOK, fileCfg, externalIDs,
              ovsUp, given>>
globals  == <<Default, Logging, CNI, Kubernetes, OvnNorth, OvnSouth, logOutput>>
confVars == <<envVars, files, globals, defaults, initRet>>
runVars  == <<runFlags, pc, runErr, started, exitStatus, panicMsg, runCalls,
              clusterController>>
dbVars   == <<dbAuth, ovsSSL, cmds, dbRet>>
subnetVars == <<subnetItems, clusterSubnetCmd, subnetRet>>
mgmtVars == <<mgmtArgs, mgmtCmds, mgmtRet, mgmtHost, mgmtAgain>>
nodeVars == <<nodeArgs, updRet>>
pidVars  == <<pidfileExists, pidfileData, dirWritable, procs>>
calleeVars == <<subnetVars, mgmtVars, nodeVars, pidVars>>
vars == <<authVars, confVars, runVars, dbVars, calleeVars>>



\* ----------------------------------------------------------- string library

\* strings.Index(s, c) for a one-character c, 1-based; 0 when absent.
IndexOf(s, c) ==
    IF \E i \in 1..Len(s) : s[i] = c
    THEN CHOOSE i \in 1..Len(s) : s[i] = c /\ \A j \in 1..(i - 1) : s[j] # c
    ELSE 0

\* strings.LastIndex(s, c) for a one-character c, 1-based; 0 when absent.
LastIndexOf(s, c) ==
    IF \E i \in 1..Len(s) : s[i] = c
    THEN CHOOSE i \in 1..Len(s) : s[i] = c /\ \A j \in (i + 1)..Len(s) : s[j] # c
    ELSE 0

\* s[from:] of Go, with a 1-based first index.
From(s, from) == SubSeq(s, from, Len(s))

\* A mutant of StripSlashes: the URL form is left as it is.
StripSlashesKept(s) == s

\* strings.Replace(s, "//", "", -1): every non-overlapping "//", left to right.
RECURSIVE StripSlashes(_)
StripSlashes(s) ==
    IF Len(s) < 2 THEN s
    ELSE IF s[1] = "/" /\ s[2] = "/" THEN StripSlashes(From(s, 3))
    ELSE <<s[1]>> \o StripSlashes(Tail(s))

\* strings.Split(s, sep) for a one-character sep: never empty, Split("") = [""].
RECURSIVE Split(_, _)
Split(s, sep) ==
    LET i == IndexOf(s, sep)
    IN  IF i = 0 THEN <<s>>
        ELSE <<SubSeq(s, 1, i - 1)>> \o Split(From(s, i + 1), sep)

\* Tokens that are decimal numbers in 0..255.
Octets == {"1", "2", "3", "4", "5", "6"}

\* net.ParseIP(host) # nil.  A host that reaches ParseIP holds no ":" (it is
\* one field of a split on ":"), so only the dotted-quad form can match.
ParseIP(host) ==
    LET parts == Split(host, ".")
    IN  /\ Len(parts) = 4
        /\ \A i \in 1..4 : Len(parts[i]) = 1 /\ parts[i][1] \in Octets

\* net.SplitHostPort(hostport): [err, host, port].
SplitHostPort(hostport) ==
    LET i    == LastIndexOf(hostport, ":")
        end  == IndexOf(hostport, "]")
        bad(e) == [err |-> e, host |-> <<>>, port |-> <<>>]
    IN  IF i = 0 THEN bad("missing port in address")
        ELSE IF hostport[1] = "["
        THEN IF end = 0 THEN bad("missing ']' in address")
             ELSE IF end = Len(hostport) THEN bad("missing port in address")
             ELSE IF end + 1 # i
                  THEN IF hostport[end + 1] = ":"
                       THEN bad("too many colons in address")
                       ELSE bad("missing port in address")
             ELSE IF IndexOf(From(hostport, 2), "[") # 0
                  THEN bad("unexpected '[' in address")
             ELSE IF IndexOf(From(hostport, end + 1), "]") # 0
                  THEN bad("unexpected ']' in address")
             ELSE [err |-> "", host |-> SubSeq(hostport, 2, end - 1),
                   port |-> From(hostport, i + 1)]
        ELSE IF IndexOf(SubSeq(hostport, 1, i - 1), ":") # 0
             THEN bad("too many colons in address")
        ELSE IF IndexOf(hostport, "[") # 0 THEN bad("unexpected '[' in address")
        ELSE IF IndexOf(hostport, "]") # 0 THEN bad("unexpected ']' in address")
        ELSE [err |-> "", host |-> SubSeq(hostport, 1, i - 1),
              port |-> From(hostport, i + 1)]

\* ------------------------------------------------------------- OvnDBAuth

OvnDBSchemeSSL  == "ssl"
OvnDBSchemeTCP  == "tcp"
OvnDBSchemeUnix == "unix"

\* The nil *OvnDBAuth.
NilAuth ==
    [nil |-> TRUE, OvnAddressForClient |-> <<>>, PrivKey |-> <<>>, Cert |-> <<>>,
     CACert |-> <<>>, Scheme |-> "", ctlCmd |-> <<>>, externalID |-> <<>>]

\* &OvnDBAuth{ctlCmd: ctlCmd, externalID: externalID, exec: exec}
NewAuth(ctlCmd, externalID) ==
    [NilAuth EXCEPT !.nil = FALSE, !.ctlCmd = ctlCmd, !.externalID = externalID]

ErrParseAddress  == "Failed to parse OVN address"
ErrProtocols     == "Invalid protocols in OVN address"
ErrHostPort      == "failed to parse OVN DB host/port"
ErrNotIP         == "OVN DB host must be an IP address, not a DNS name"
ErrSSLNeedsCerts == "must specify private key, certificate, and CA certificate for 'ssl' scheme"
ErrCertGiven     == "certificate or key given; perhaps you mean to use the 'ssl' scheme?"
ErrUnknownScheme == "unknown OVN DB scheme"

\* The loop of newOvnDBAuth over ovnAddresses[i..], entered with the scheme
\* and the client address built so far: [err, scheme, addr].
RECURSIVE ParseAddresses(_, _, _, _)
ParseAddresses(ovnAddresses, i, scheme, addr) ==
    IF i > Len(ovnAddresses) THEN [err |-> "", scheme |-> scheme, addr |-> addr]
    ELSE
      LET splits == Split(ovnAddresses[i], ":")
          fail(e) == [err |-> e, scheme |-> scheme, addr |-> addr]
      IN  IF Len(splits) # 3 THEN fail(ErrParseAddress)
          ELSE
            LET hostPort == splits[2] \o <<":">> \o splits[3]
                scheme1  == IF scheme = <<>> THEN splits[1] ELSE scheme
                hp       == SplitHostPort(hostPort)
                one      == scheme1 \o <<":">> \o hp.host \o <<":">> \o hp.port
            IN  IF scheme # <<>> /\ scheme # splits[1] THEN fail(ErrProtocols)
                ELSE IF hp.err # "" THEN fail(ErrHostPort)
                ELSE IF ~ParseIP(hp.host) THEN fail(ErrNotIP)
                ELSE ParseAddresses(ovnAddresses, i + 1, scheme1,
                        IF addr = <<>> THEN one ELSE addr \o <<",">> \o one)

\* A mutant of AnyCertGiven: only the private key is looked at.
AnyCertGivenKeyOnly(key, crt, ca) == key # <<>>

\* privkey != "" || cert != "" || cacert != ""
AnyCertGiven(key, crt, ca) ==
    key # <<>> \/ crt # <<>> \/ ca # <<>>

\* A mutant of SSLCertMissing: a path that names no file counts as missing.
SSLCertMissingOrAbsent(key, crt, ca) ==
    \/ key = <<>> \/ crt = <<>> \/ ca = <<>>
    \/ key \notin files \/ crt \notin files \/ ca \notin files

\* privkey == "" || cert == "" || cacert == ""
SSLCertMissing(key, crt, ca) ==
    key = <<>> \/ crt = <<>> \/ ca = <<>>

\* A mutant of SchemeCase: "unix" is taken for a scheme of its own and
\* handled like tcp.
SchemeCaseUnixKnown(scheme) ==
    IF scheme = <<"ssl">> THEN "ssl"
    ELSE IF scheme \in {<<"tcp">>, <<"unix">>} THEN "tcp"
    ELSE "default"

\* The switch on the scheme that ends newOvnDBAuth.
SchemeCase(scheme) ==
    IF scheme = <<"ssl">> THEN "ssl"
    ELSE IF scheme = <<"tcp">> THEN "tcp"
    ELSE "default"

\* newOvnDBAuth(exec, ctlCmd, externalID, urlString, privkey, cert, cacert):
\* [err, auth], auth = NilAuth exactly when err # "".
newOvnDBAuth(ctlCmd, externalID, urlStr, key, crt, ca) ==
    LET fail(e) == [err |-> e, auth |-> NilAuth]
        auth    == NewAuth(ctlCmd, externalID)
    IN  IF urlStr = <<>>
        THEN IF AnyCertGiven(key, crt, ca) THEN fail(ErrCertGiven)
             ELSE [err |-> "", auth |-> [auth EXCEPT !.Scheme = OvnDBSchemeUnix]]
        ELSE
          LET p == ParseAddresses(Split(StripSlashes(urlStr), ","), 1, <<>>, <<>>)
              a == [auth EXCEPT !.OvnAddressForClient = p.addr]
          IN  IF p.err # "" THEN fail(p.err)
              ELSE IF SchemeCase(p.scheme) = "ssl"
              THEN IF SSLCertMissing(key, crt, ca)
                   THEN fail(ErrSSLNeedsCerts)
                   ELSE [err |-> "",
                         auth |-> [a EXCEPT !.Scheme = OvnDBSchemeSSL, !.PrivKey = key,
                                            !.Cert = crt, !.CACert = ca]]
              ELSE IF SchemeCase(p.scheme) = "tcp"
              THEN IF AnyCertGiven(key, crt, ca) THEN fail(ErrCertGiven)
                   ELSE [err |-> "", auth |-> [a EXCEPT !.Scheme = OvnDBSchemeTCP]]
              ELSE fail(ErrUnknownScheme)

\* GetURL().
GetURL(a) == a.OvnAddressForClient

\* ------------------------------------------------------ config structs

DefaultMTU             == 1400
DefaultConntrackZone   == 64000
DefaultInactivityProbe == 100000
DefaultLogLevel        == 4

\* The struct fields of kind reflect.Int; every other field is a string.
IntFields == {"MTU", "ConntrackZone", "InactivityProbe", "Level"}

\* The zero value of each struct.
ZeroDefault    == [MTU |-> 0, ConntrackZone |-> 0, EncapType |-> <<>>, EncapIP |-> <<>>,
                   InactivityProbe |-> 0]
ZeroLogging    == [File |-> <<>>, Level |-> 0]
ZeroCNI        == [ConfDir |-> <<>>, Plugin |-> <<>>, WinHNSNetworkID |-> <<>>]
ZeroKubernetes == [Kubeconfig |-> <<>>, CACert |-> <<>>, APIServer |-> <<>>, Token |-> <<>>]
ZeroRawAuth    == [Address |-> <<>>, ClientPrivKey |-> <<>>, ClientCert |-> <<>>,
                   ClientCACert |-> <<>>]

\* var cfg config / var cliConfig config
ZeroConfig ==
    [Default |-> ZeroDefault, Logging |-> ZeroLogging, CNI |-> ZeroCNI,
     Kubernetes |-> ZeroKubernetes, OvnNorth |-> ZeroRawAuth, OvnSouth |-> ZeroRawAuth]

\* The package-level defaults.
LocalAPIServer ==
    <<"http", ":", "/", "/", "localhost", ":", "8080">>

InitialDefault ==
    [MTU |-> DefaultMTU, ConntrackZone |-> DefaultConntrackZone,
     EncapType |-> <<"geneve">>, EncapIP |-> <<>>,
     InactivityProbe |-> DefaultInactivityProbe]
InitialLogging    == [File |-> <<>>, Level |-> DefaultLogLevel]
InitialCNI        == [ConfDir |-> <<"/etc/cni/net.d">>, Plugin |-> <<"ovn-k8s-cni-overlay">>,
                      WinHNSNetworkID |-> <<>>]
InitialKubernetes == [ZeroKubernetes EXCEPT !.APIServer = LocalAPIServer]
\* var OvnNorth OvnAuthConfig: ClientAuth is the nil pointer.
ZeroOvnAuthConfig == [ClientAuth |-> NilAuth]

\* A mutant of overrideFields: the zero value of src is copied as well.
overrideFieldsAll(dst, src) == src

\* overrideFields(dst, src): every non-zero int and non-empty string of src.
overrideFields(dst, src) ==
    [f \in DOMAIN dst |->
        IF f \in IntFields
        THEN IF src[f] # 0 THEN src[f] ELSE dst[f]
        ELSE IF src[f] # <<>> THEN src[f] ELSE dst[f]]

\* ------------------------------------------------------------ ovs-vsctl

Quote == <<"\"">>

\* strings.Trim(s, "\""): the quotes at both ends.
RECURSIVE TrimQuotes(_)
TrimQuotes(s) ==
    IF Len(s) > 0 /\ s[1] = "\"" THEN TrimQuotes(Tail(s))
    ELSE IF Len(s) > 0 /\ s[Len(s)] = "\"" THEN TrimQuotes(SubSeq(s, 1, Len(s) - 1))
    ELSE s

\* What "ovs-vsctl --if-exists get Open_vSwitch . external_ids:<name>" prints:
\* the string in quotes, nothing for a key that is not there.
VsctlGetOutput(ids, name) ==
    IF name \in DOMAIN ids /\ ids[name] # <<>> THEN Quote \o ids[name] \o Quote ELSE <<>>

\* getOVSExternalID(exec, name), runOVSVsctl's trimming included; "" when
\* ovs-vsctl fails.
getOVSExternalID(up, ids, name) ==
    IF ~up THEN <<>> ELSE TrimQuotes(VsctlGetOutput(ids, name))

\* A mutant of VsctlSetExternalID: the value is stored with its quotes.
VsctlSetExternalIDQuoted(ids, key, value) ==
    [k \in DOMAIN ids |-> IF k = key THEN value ELSE ids[k]]

\* What "ovs-vsctl set Open_vSwitch . external_ids:<key>=<value>" leaves in
\* the database: the argument is a quoted string, stored without its quotes.
VsctlSetExternalID(ids, key, value) ==
    [k \in DOMAIN ids |-> IF k = key THEN TrimQuotes(value) ELSE ids[k]]

\* ------------------------------------------------------------ net/url

\* Tokens made of letters, and tokens made of digits.
LetterWords == {"http", "https", "gggggg", "localhost", "foobar", "org", "a", "b", "com"}
DigitWords  == Octets \cup {"8080", "6443", "8443", "6641", "6642"}

\* The number of leading tokens url.Parse can read as a scheme: a letter
\* first, then letters, digits and ".".
SchemeLen(rawurl) ==
    IF Len(rawurl) = 0 \/ rawurl[1] \notin LetterWords THEN 0
    ELSE CHOOSE n \in 1..Len(rawurl) :
            /\ \A k \in 2..n : rawurl[k] \in LetterWords \cup DigitWords \cup {"."}
            /\ n = Len(rawurl) \/ rawurl[n + 1] \notin LetterWords \cup DigitWords \cup {"."}

\* url.Parse(rawurl): [err, Scheme].
urlParse(rawurl) ==
    LET n      == SchemeLen(rawurl)
        scheme == IF n > 0 /\ n < Len(rawurl) /\ rawurl[n + 1] = ":"
                  THEN SubSeq(rawurl, 1, n) ELSE <<>>
        rest   == IF scheme = <<>> THEN rawurl ELSE From(rawurl, n + 2)
        slash  == Len(rest) >= 2 /\ rest[1] = "/" /\ rest[2] = "/"
        auth   == IF slash THEN Split(From(rest, 3), "/")[1] ELSE <<>>
        seg1   == Split(rest, "/")[1]
        bad(e) == [err |-> e, Scheme |-> <<>>]
    IN  IF Len(rawurl) > 0 /\ rawurl[1] = ":" THEN bad("missing protocol scheme")
        ELSE IF scheme = <<>> /\ (Len(rest) = 0 \/ rest[1] # "/") /\ IndexOf(seg1, ":") # 0
             THEN bad("first path segment in URL cannot contain colon")
        ELSE IF IndexOf(auth, " ") # 0 THEN bad("invalid character in host name")
        ELSE [err |-> "", Scheme |-> scheme]

\* --------------------------------------------------------- config.go

\* A mutant of pathExists: every path is taken to exist.
pathExistsAlways(fs, path) == TRUE

\* pathExists(path), fs being the paths os.Stat finds.
pathExists(fs, path) == path \in fs

NoDefaults ==
    [OvnNorthAddress |-> FALSE, K8sAPIServer |-> FALSE, K8sToken |-> FALSE,
     K8sCert |-> FALSE]

ErrKubeconfig == "kubernetes kubeconfig file not found"
ErrKubeCACert == "kubernetes CA certificate file not found"
ErrAPIServer  == "kubernetes API server address invalid"
ErrAPIScheme  == "kubernetes API server URL scheme invalid"

\* buildKubernetesConfig(exec, cli, file, defaults) on the global k:
\* [err, Kubernetes].
buildKubernetesConfig(up, ids, fs, k, cli, file, dflt) ==
    LET k1 == IF dflt.K8sAPIServer
              THEN [k EXCEPT !.APIServer = getOVSExternalID(up, ids, <<"k8s-api-server">>)]
              ELSE k
        k2 == IF dflt.K8sToken
              THEN [k1 EXCEPT !.Token = getOVSExternalID(up, ids, <<"k8s-api-token">>)]
              ELSE k1
        k3 == IF dflt.K8sCert
              THEN [k2 EXCEPT !.CACert = getOVSExternalID(up, ids, <<"k8s-ca-certificate">>)]
              ELSE k2
        k5 == overrideFields(overrideFields(k3, file.Kubernetes), cli.Kubernetes)
        u  == urlParse(k5.APIServer)
        e  == IF k5.Kubeconfig # <<>> /\ ~pathExists(fs, k5.Kubeconfig) THEN ErrKubeconfig
              ELSE IF k5.CACert # <<>> /\ ~pathExists(fs, k5.CACert) THEN ErrKubeCACert
              ELSE IF u.err # "" THEN ErrAPIServer
              ELSE IF u.Scheme # <<"https">> /\ u.Scheme # <<"http">> THEN ErrAPIScheme
              ELSE ""
    IN  [err |-> e, Kubernetes |-> k5]

\* strings.HasPrefix(address, "ssl"); "ssl" is the one token that starts so.
HasPrefixSSL(address) == Len(address) > 0 /\ address[1] = "ssl"

\* A mutant of DefaultCertPaths: no path is filled in.
DefaultCertPathsNone(direction) == ZeroRawAuth

\* The default SSL cert/key paths of buildOvnAuth.
DefaultCertPaths(direction) ==
    [Address       |-> <<>>,
     ClientCACert  |-> <<"/etc/openvswitch/ovn", direction, "-ca.cert">>,
     ClientPrivKey |-> <<"/etc/openvswitch/ovn", direction, "-privkey.pem">>,
     ClientCert    |-> <<"/etc/openvswitch/ovn", direction, "-cert.pem">>]

\* buildOvnAuth from "auth := &rawOvnAuthConfig{Address: address}" on.
buildOvnAuthFor(direction, externalID, cliAuth, confAuth, address) ==
    LET auth0 == IF HasPrefixSSL(address)
                 THEN [DefaultCertPaths(direction) EXCEPT !.Address = address]
                 ELSE [ZeroRawAuth EXCEPT !.Address = address]
    IN  overrideFields(overrideFields(auth0, confAuth), cliAuth)

\* The OvnAuthConfig and the error buildOvnAuth returns for what
\* newOvnDBAuth returned: the zero OvnAuthConfig on an error.
OvnAuthConfigOf(r) == [err |-> r.err, cfg |-> [ClientAuth |-> r.auth]]

\* The call of newOvnDBAuth in buildOvnAuth.
newOvnDBAuthOf(direction, externalID, auth) ==
    OvnAuthConfigOf(newOvnDBAuth(<<"ovn-", direction, "ctl">>, externalID, auth.Address,
                                 auth.ClientPrivKey, auth.ClientCert, auth.ClientCACert))

\* buildOvnAuth(exec, direction, externalID, cliAuth, confAuth, readAddress):
\* [err, cfg], cfg the OvnAuthConfig returned.
buildOvnAuth(up, ids, direction, externalID, cliAuth, confAuth, readAddress) ==
    LET address1 == IF cliAuth.Address # <<>> THEN cliAuth.Address ELSE confAuth.Address
    IN  newOvnDBAuthOf(direction, externalID,
            buildOvnAuthFor(direction, externalID, cliAuth, confAuth,
                IF address1 = <<>> /\ readAddress
                THEN getOVSExternalID(up, ids, <<"ovn-", direction>>)
                ELSE address1))

DefaultConfigFile == <<"/etc/openvswitch/ovn_k8s.conf">>

\* A mutant of getConfigFilePath: the default path is not marked as the
\* fallback.
getConfigFilePathStrict(flag) ==
    IF flag # <<>> THEN <<flag, FALSE>> ELSE <<DefaultConfigFile, FALSE>>

\* getConfigFilePath(ctx) on Linux: <<path, is the fallback path>>.
getConfigFilePath(flag) ==
    IF flag # <<>> THEN <<flag, FALSE>> ELSE <<DefaultConfigFile, TRUE>>

\* ------------------------------------------------ SetDBAuth

\* One command handed to exec, and whether it ran and exited with 0.
Command(cmd, args, ok) == [cmd |-> cmd, args |-> args, ok |-> ok]

\* rawExec as runOVSVsctl calls it.
OvsVsctl(args, ok) == Command(<<"ovs-vsctl">>, <<<<"--timeout=15">>>> \o args, ok)

\* The one command of ensureCACert.
BootstrapCA(a, ok) ==
    Command(<<"ovn-", "nb", "ctl">>,
            <<<<"--db=">> \o GetURL(a), <<"--timeout=5">>>>
              \o (IF a.Scheme = OvnDBSchemeSSL
                  THEN <<<<"--private-key=">> \o a.PrivKey,
                         <<"--certificate=">> \o a.Cert,
                         <<"--bootstrap-ca-cert=">> \o a.CACert>>
                  ELSE <<>>)
              \o <<<<"list">>, <<"nb_global">>>>,
            ok)

\* ensureCACert(): the commands run and the files there are afterwards;
\* a bootstrap that works leaves the CA certificate on disk.
ensureCACert(a, fs, bootstraps) ==
    IF pathExists(fs, a.CACert) THEN [cmds |-> <<>>, files |-> fs]
    ELSE [cmds  |-> <<BootstrapCA(a, bootstraps)>>,
          files |-> IF bootstraps THEN fs \cup {a.CACert} ELSE fs]

\* The argument of "ovs-vsctl set" that setOVSExternalID builds.
ExternalIDArg(key, value) == <<"external_ids:">> \o key \o <<"=">> \o value

\* A mutant of SetsClientSSL: no database has the SSL row set.
SetsClientSSLNever(a) == FALSE

\* a.ctlCmd == "ovn-sbctl"
SetsClientSSL(a) == a.ctlCmd = <<"ovn-", "sb", "ctl">>

ErrNoPrivKey == "private key file not found"
ErrNoCert    == "certificate file not found"
ErrDelSSL    == "error deleting ovs-vsctl SSL configuration"
ErrSetSSL    == "error setting client southbound DB SSL options"
ErrSetID     == "Error setting OVS external ID"

\* SetDBAuth() on a, out telling which of the commands work: the error, the
\* commands run, and the files, external_ids and SSL row left behind.
SetDBAuth(a, fs, ids, ssl, out) ==
    LET st0  == [err |-> "", cmds |-> <<>>, files |-> fs, ids |-> ids, ssl |-> ssl]
        ca   == ensureCACert(a, fs, out.bootstrap)
        st1  == IF a.Scheme = OvnDBSchemeSSL
                THEN [st0 EXCEPT !.cmds = ca.cmds, !.files = ca.files]
                ELSE st0
        del  == OvsVsctl(<<<<"del-ssl">>>>, out.delSSL)
        st2  == [st1 EXCEPT !.cmds = @ \o <<del>>,
                            !.ssl = IF out.delSSL THEN <<>> ELSE @]
        set  == OvsVsctl(<<<<"set-ssl">>, a.PrivKey, a.Cert, a.CACert>>, out.setSSL)
        st3  == [st2 EXCEPT !.cmds = @ \o <<set>>,
                            !.ssl = IF out.setSSL THEN <<a.PrivKey, a.Cert, a.CACert>>
                                    ELSE @]
        st4  == IF a.Scheme = OvnDBSchemeSSL /\ SetsClientSSL(a) THEN st3 ELSE st1
        value == Quote \o GetURL(a) \o Quote
        id   == OvsVsctl(<<<<"set">>, <<"Open_vSwitch">>, <<".">>,
                           ExternalIDArg(a.externalID, value)>>, out.setID)
        st5  == [st4 EXCEPT !.cmds = @ \o <<id>>,
                            !.ids = IF out.setID
                                    THEN VsctlSetExternalID(@, a.externalID, value) ELSE @]
    IN  IF a.Scheme = OvnDBSchemeUnix THEN st0
        ELSE IF a.Scheme = OvnDBSchemeSSL /\ ~pathExists(fs, a.PrivKey)
             THEN [st0 EXCEPT !.err = ErrNoPrivKey]
        ELSE IF a.Scheme = OvnDBSchemeSSL /\ ~pathExists(fs, a.Cert)
             THEN [st0 EXCEPT !.err = ErrNoCert]
        ELSE IF a.Scheme = OvnDBSchemeSSL /\ SetsClientSSL(a) /\ ~out.delSSL
             THEN [st2 EXCEPT !.err = ErrDelSSL]
        ELSE IF a.Scheme = OvnDBSchemeSSL /\ SetsClientSSL(a) /\ ~out.setSSL
             THEN [st3 EXCEPT !.err = ErrSetSSL]
        ELSE IF ~out.setID THEN [st5 EXCEPT !.err = ErrSetID]
        ELSE st5

\* ------------------------------------------- inputs of the address parser

IP1      == <<"1", ".", "2", ".", "3", ".", "4">>
IP2      == <<"6", ".", "5", ".", "4", ".", "3">>
DNSName  == <<"foobar", ".", "org">>
ShortIP  == <<"1", ".", "2", ".", "3">>
Bracket  == <<"[">> \o IP1 \o <<"]">>
Port1    == <<"6641">>
Port2    == <<"6642">>
Colon    == <<":">>
URLSep   == <<":", "/", "/">>

\* One element of a connection string as the user wrote it: scheme, separator,
\* host and, when hasPort, ":" and a port.
Elem(scheme, sep, host, hasPort, port) ==
    [scheme |-> scheme, sep |-> sep, host |-> host, hasPort |-> hasPort, port |-> port]

Render(e) ==
    e.scheme \o e.sep \o e.host \o (IF e.hasPort THEN <<":">> \o e.port ELSE <<>>)

RECURSIVE RenderList(_)
RenderList(es) ==
    IF Len(es) = 0 THEN <<>>
    ELSE IF Len(es) = 1 THEN Render(es[1])
    ELSE Render(es[1]) \o <<",">> \o RenderList(Tail(es))

\* scheme://ip:port and scheme:ip:port with a scheme the code knows.
WellFormedElems ==
    { Elem(<<s>>, sep, hp[1], TRUE, hp[2]) :
        s \in {"tcp", "ssl"}, sep \in {Colon, URLSep},
        hp \in {<<IP1, Port1>>, <<IP2, Port2>>} }

\* Elements with one thing wrong, or unusual.
OddElems ==
    { Elem(<<"unix">>, Colon, IP1, TRUE, Port1),     \* unix:1.2.3.4:6641
      Elem(<<"blah">>, URLSep, IP1, TRUE, Port1),    \* blah://1.2.3.4:6641
      Elem(<<>>, Colon, IP1, TRUE, Port1),           \* :1.2.3.4:6641
      Elem(<<"tcp">>, URLSep, DNSName, TRUE, Port1), \* tcp://foobar.org:6641
      Elem(<<"ssl">>, Colon, DNSName, TRUE, Port1),  \* ssl:foobar.org:6641
      Elem(<<"tcp">>, URLSep, IP2, FALSE, <<>>),     \* tcp://6.5.4.3
      Elem(<<"tcp">>, Colon, IP1, TRUE, <<>>),       \* tcp:1.2.3.4:
      Elem(<<"tcp">>, Colon, ShortIP, TRUE, Port1),  \* tcp:1.2.3:6641
      Elem(<<"tcp">>, Colon, Bracket, TRUE, Port1),  \* tcp:[1.2.3.4]:6641
      Elem(<<"tcp">>, Colon, <<"[">> \o IP1, TRUE, Port1), \* tcp:[1.2.3.4:6641
      Elem(<<"tcp">>, Colon, <<>>, TRUE, Port1) }    \* tcp::6641

Elems == WellFormedElems \cup OddElems

ElemLists == UNION { [1..n -> Elems] : n \in 0..MaxAddrs }

KeyPath  == <<"/client/privkey">>
CertPath == <<"/client/cert">>
CAPath   == <<"/client/cacert">>

\* ------------------------------------------- inputs of InitConfig

\* Options with more than this number given (command line, config file and
\* database external-ids together) are not explored.
MaxGiven == 2

GivenConfigFile == <<"/tmp/conftest">>

URL(scheme, host, port) == <<scheme, ":", "/", "/">> \o host \o <<":", port>>

\* <<section, field, value>> of the flags and config-file options offered.
CliIntFlags == { <<"Default", "MTU", 1234>>, <<"Default", "ConntrackZone", 5555>>,
                 <<"Logging", "Level", 3>> }
CliStrFlags == { <<"Logging", "File", <<"/some/logfile">>>>,
                 <<"CNI", "ConfDir", <<"/some/cni/dir">>>>,
                 <<"CNI", "Plugin", <<"a-plugin">>>>,
                 <<"Kubernetes", "Kubeconfig", <<"/cli/kubeconfig">>>>,
                 <<"Kubernetes", "APIServer", URL("https", IP2, "8080")>>,
                 <<"Kubernetes", "APIServer", URL("gggggg", <<"localhost">>, "8443")>>,
                 <<"Kubernetes", "APIServer",
                   <<"http", ":", "/", "/", "a", " ", "b", ".", "com", "/">>>>,
                 <<"Kubernetes", "CACert", <<"/cli/kube-ca.crt">>>>,
                 <<"Kubernetes", "Token", <<"cli-token">>>> }
FileIntOptions == { <<"Default", "MTU", 1500>>, <<"Default", "ConntrackZone", 64321>>,
                    <<"Logging", "Level", 5>> }
FileStrOptions == { <<"Logging", "File", <<"/var/log/ovnkube.log">>>>,
                    <<"CNI", "ConfDir", <<"/etc/cni/net.d22">>>>,
                    <<"CNI", "Plugin", <<"ovn-k8s-cni-overlay22">>>>,
                    <<"Kubernetes", "Kubeconfig", <<"/file/kubeconfig">>>>,
                    <<"Kubernetes", "APIServer", URL("https", IP1, "6443")>>,
                    <<"Kubernetes", "APIServer", URL("gggggg", <<"localhost">>, "8443")>>,
                    <<"Kubernetes", "CACert", <<"/file/kubeca.crt">>>>,
                    <<"Kubernetes", "Token", <<"file-token">>>> }

\* Connection strings offered, as lists of elements.
CliAddrs ==
    { <<Elem(<<"ssl">>, URLSep, IP2, TRUE, Port2)>>,
      <<Elem(<<"tcp">>, URLSep, IP2, TRUE, Port2)>>,
      <<Elem(<<"ssl">>, URLSep, IP2, TRUE, Port2), Elem(<<"ssl">>, URLSep, IP1, TRUE, Port2)>>,
      <<Elem(<<"tcp">>, URLSep, DNSName, TRUE, Port1)>>,
      <<Elem(<<"tcp">>, URLSep, IP2, FALSE, <<>>)>>,
      <<Elem(<<"tcp">>, Colon, IP2, TRUE, <<>>)>> }
FileAddrs ==
    { <<Elem(<<"ssl">>, URLSep, IP1, TRUE, Port1)>>,
      <<Elem(<<"tcp">>, Colon, IP1, TRUE, Port1)>>,
      <<Elem(<<"tcp">>, URLSep, DNSName, TRUE, Port2)>>,
      <<Elem(<<"tcp">>, URLSep, IP1, FALSE, <<>>)>> }
ExtAddrs ==
    { <<Elem(<<"tcp">>, Colon, IP1, TRUE, Port2)>>,
      <<Elem(<<"ssl">>, Colon, IP1, TRUE, Port2)>> }

\* <<client-privkey, client-cert, client-cacert>> offered.
CliCerts  == { <<KeyPath, CertPath, CAPath>>, <<KeyPath, <<>>, <<>>>>,
               <<<<>>, CertPath, CAPath>> }
FileCerts == { <<<<"/path/to/client-private.key">>, <<"/path/to/client.crt">>,
                 <<"/path/to/client-ca.crt">>>>,
               <<<<>>, <<"/path/to/client.crt">>, <<"/path/to/client-ca.crt">>>> }

\* The external-ids InitConfig reads and SetDBAuth writes.
ExtKeys == { <<"k8s-api-server">>, <<"k8s-api-token">>, <<"k8s-ca-certificate">>,
             <<"ovn-", "nb">>, <<"ovn-", "remote">> }
ExtValues ==
    { <<<<"k8s-api-server">>, URL("https", IP1, "8443")>>,
      <<<<"k8s-api-token">>, <<"ext-token">>>>,
      <<<<"k8s-ca-certificate">>, <<"/ext/kube-cacert.pem">>>> }
        \cup { <<<<"ovn-", "nb">>, RenderList(es)>> : es \in ExtAddrs }
NoExternalIDs == [k \in ExtKeys |-> <<>>]

\* The files that exist when the process starts.
K8sFiles == { <<"/cli/kubeconfig">>, <<"/cli/kube-ca.crt">>, <<"/file/kubeconfig">>,
              <<"/file/kubeca.crt">>, <<"/ext/kube-cacert.pem">> }
OvnFiles == { KeyPath, CertPath, CAPath }
FileSystems ==
    { {}, K8sFiles \cup OvnFiles, {<<"/file/kubeconfig">>, <<"/file/kubeca.crt">>} }
        \cup { K8sFiles \cup (OvnFiles \ {f}) : f \in OvnFiles }

\* The Defaults a caller passes; NoDefaults stands for nil as well.
DefaultsSet ==
    { NoDefaults,
      [NoDefaults EXCEPT !.OvnNorthAddress = TRUE],
      [NoDefaults EXCEPT !.K8sAPIServer = TRUE],
      [NoDefaults EXCEPT !.K8sToken = TRUE],
      [NoDefaults EXCEPT !.K8sCert = TRUE],
      [OvnNorthAddress |-> TRUE, K8sAPIServer |-> TRUE, K8sToken |-> TRUE,
       K8sCert |-> TRUE] }

NoRet == [done |-> FALSE, err |-> "", auth |-> NilAuth]
NoInitRet == [done |-> FALSE, arg |-> <<>>, path |-> <<>>, err |-> ""]

\* The variables of newOvnDBAuth's own specification, at rest.
AuthIdle ==
    /\ ovnAddrs = <<>> /\ urlString = <<>>
    /\ privkey = <<>> /\ cert = <<>> /\ cacert = <<>>
    /\ ret = NoRet

\* ovncluster.NewClusterController: the fields runOvnKube sets.
NewClusterController == [ClusterIPNet |-> <<>>, ClusterServicesSubnet |-> <<>>]

\* The variables of the process start-up, at rest.
RunIdle ==
    /\ runFlags = [master |-> FALSE, node |-> FALSE, netController |-> FALSE]
    /\ pc = "idle" /\ runErr = "" /\ started = {} /\ exitStatus = -1
    /\ runCalls = <<>>
    /\ panicMsg = "" /\ clusterController = NewClusterController

\* The variables of SetDBAuth, at rest.
DBIdle ==
    /\ dbAuth = NilAuth /\ ovsSSL = <<>> /\ cmds = <<>>
    /\ dbRet = [done |-> FALSE, err |-> ""]

\* The variables of parseClusterSubnetEntries' own specification, at rest.
NoSubnetRet == [done |-> FALSE, err |-> "", list |-> <<>>]
SubnetIdle ==
    /\ subnetItems = <<>> /\ clusterSubnetCmd = <<>> /\ subnetRet = NoSubnetRet

\* The variables of CreateManagementPort's own specification, at rest.
MgmtIdle ==
    /\ mgmtArgs = [nodeName |-> <<>>] /\ mgmtCmds = <<>>
    /\ mgmtRet = [done |-> FALSE, err |-> ""]
    /\ mgmtHost = <<>> /\ mgmtAgain = [done |-> FALSE]

\* The variables of UpdateOvnNodeAuth's own specification, at rest.
NodeIdle ==
    /\ nodeArgs = [masterIP |-> <<>>] /\ updRet = [done |-> FALSE, err |-> ""]

\* The ovnkube processes that share a pidfile, named by os.Getpid().
Procs == {101, 202}

\* A process that has not been started: pc is the statement the main
\* goroutine is at, handler the statement the signal goroutine is at, pid
\* the bytes read from the pidfile, end how runOvnKube ended, exit the exit
\* status, -1 while there is none, stopChan the channel handed to the watch
\* factory: "none" until it is made, then "open".
NoProc == [pc |-> "idle", handler |-> "off", pid |-> <<>>, end |-> "", exit |-> -1,
           stopChan |-> "none"]

PidIdle ==
    /\ pidfileExists = FALSE /\ pidfileData = <<>> /\ dirWritable = TRUE
    /\ procs = [p \in Procs |-> NoProc]

\* The functions that have a specification of their own, at rest.
CalleesIdle == SubnetIdle /\ MgmtIdle /\ NodeIdle /\ PidIdle

\* The process before any option is given: the package-level values.
ConfIdle ==
    /\ cliConfig = ZeroConfig /\ fileCfg = ZeroConfig
    /\ configFileFlag = <<>> /\ confFileAt = <<>> /\ confFileOK = TRUE
    /\ externalIDs = NoExternalIDs /\ ovsUp = TRUE /\ given = 0
    /\ Default = InitialDefault /\ Logging = InitialLogging /\ CNI = InitialCNI
    /\ Kubernetes = InitialKubernetes
    /\ OvnNorth = ZeroOvnAuthConfig /\ OvnSouth = ZeroOvnAuthConfig
    /\ logOutput = <<"stderr">>
    /\ defaults = NoDefaults /\ initRet = NoInitRet

\* ------------------------------------------------ InitConfigWithPath

ErrOpenConfig  == "failed to open config file"
ErrParseConfig == "failed to parse config file"

\* What InitConfigWithPath has in hand on entry: the globals as they are,
\* logrus writing to stderr, nothing to return yet.
OnEntry ==
    [Default |-> Default, Logging |-> Logging, CNI |-> CNI, Kubernetes |-> Kubernetes,
     OvnNorth |-> OvnNorth, OvnSouth |-> OvnSouth, logOutput |-> <<"stderr">>,
     files |-> files, path |-> <<>>, err |-> ""]

\* The end of InitConfigWithPath: the southbound database.
InitOvnSouth(retConfigFile, g, sb) ==
    IF sb.err # "" THEN [g EXCEPT !.OvnSouth = sb.cfg, !.err = sb.err]
    ELSE [g EXCEPT !.OvnSouth = sb.cfg, !.path = retConfigFile]

\* InitConfigWithPath from the assignment of OvnNorth on.
InitOvnNorth(cfg, retConfigFile, g, nb) ==
    IF nb.err # "" THEN [g EXCEPT !.OvnNorth = nb.cfg, !.err = nb.err]
    ELSE InitOvnSouth(retConfigFile, [g EXCEPT !.OvnNorth = nb.cfg],
            buildOvnAuth(ovsUp, externalIDs, "sb", <<"ovn-", "remote">>,
                         cliConfig.OvnSouth, cfg.OvnSouth, FALSE))

\* InitConfigWithPath from the return of buildKubernetesConfig on.
InitKubernetes(cfg, retConfigFile, dflt, g, k) ==
    IF k.err # "" THEN [g EXCEPT !.Kubernetes = k.Kubernetes, !.err = k.err]
    ELSE InitOvnNorth(cfg, retConfigFile, [g EXCEPT !.Kubernetes = k.Kubernetes],
            buildOvnAuth(ovsUp, externalIDs, "nb", <<"ovn-", "nb">>, cliConfig.OvnNorth,
                         cfg.OvnNorth, dflt.OvnNorthAddress))

\* The logging setup: the log file is created when it can be opened.
InitLogging(cfg, retConfigFile, dflt, logOpens, g) ==
    LET logged == g.Logging.File # <<>> /\ logOpens
        fs     == IF logged THEN files \cup {g.Logging.File} ELSE files
    IN  InitKubernetes(cfg, retConfigFile, dflt,
            [g EXCEPT !.files = fs,
                      !.logOutput = IF logged THEN g.Logging.File ELSE @],
            buildKubernetesConfig(ovsUp, externalIDs, fs, Kubernetes, cliConfig, cfg, dflt))

\* InitConfigWithPath once the config file is read into cfg.
InitFrom(cfg, retConfigFile, dflt, logOpens) ==
    InitLogging(cfg, retConfigFile, dflt, logOpens,
        [OnEntry EXCEPT
            !.Default = overrideFields(overrideFields(Default, cfg.Default), cliConfig.Default),
            !.CNI     = overrideFields(overrideFields(CNI, cfg.CNI), cliConfig.CNI),
            !.Logging = overrideFields(overrideFields(Logging, cfg.Logging),
                                       cliConfig.Logging)])

\* InitConfigWithPath from os.Open on.
InitOpen(path, isDefault, opened, dflt, logOpens) ==
    IF ~opened /\ ~isDefault THEN [OnEntry EXCEPT !.err = ErrOpenConfig]
    ELSE IF opened /\ ~confFileOK THEN [OnEntry EXCEPT !.err = ErrParseConfig]
    ELSE InitFrom(IF opened THEN fileCfg ELSE ZeroConfig,
                  IF ~isDefault THEN path ELSE <<>>, dflt, logOpens)

\* InitConfigWithPath(ctx, exec, configFile, defaults), logOpens telling
\* whether the log file can be opened: what it returns and what it leaves in
\* the globals and in the file system, whichever return statement is taken.
InitConfigWithPath(configFile, dflt, logOpens) ==
    LET pd == IF configFile = <<>> THEN getConfigFilePath(configFileFlag)
              ELSE <<configFile, FALSE>>
    IN  InitOpen(pd[1], pd[2], confFileAt # <<>> /\ confFileAt = pd[1], dflt, logOpens)

\* InitConfig(ctx, exec, defaults)
InitConfig(dflt, logOpens) == InitConfigWithPath(<<>>, dflt, logOpens)

\* ------------------------------------------------ SpecAuth: newOvnDBAuth

InitAuth ==
    /\ ovnAddrs \in ElemLists
    /\ urlString = RenderList(ovnAddrs)
    /\ privkey \in {<<>>, KeyPath}
    /\ cert \in {<<>>, CertPath}
    /\ cacert \in {<<>>, CAPath}
    /\ ret = NoRet
    /\ ConfIdle /\ files = {}
    /\ RunIdle /\ DBIdle /\ CalleesIdle

CallNewOvnDBAuth ==
    /\ ~ret.done
    /\ LET r == newOvnDBAuth(<<"ovn-", "nb", "ctl">>, <<"ovn-", "nb">>, urlString,
                             privkey, cert, cacert)
       IN  ret' = [done |-> TRUE, err |-> r.err, auth |-> r.auth]
    /\ UNCHANGED <<ovnAddrs, urlString, privkey, cert, cacert, confVars, runVars, dbVars,
                   calleeVars>>

NextAuth == CallNewOvnDBAuth

SpecAuth == InitAuth /\ [][NextAuth]_vars

\* ------------------------------------------------ Spec: InitConfig

Init ==
    /\ AuthIdle /\ RunIdle /\ DBIdle /\ CalleesIdle
    /\ ConfIdle
    /\ files \in FileSystems

Configuring == ~initRet.done /\ given < MaxGiven

OvnSections == {"OvnNorth", "OvnSouth"}

\* A flag on the command line: urfave/cli stores it in cliConfig.
GiveIntFlag ==
    /\ Configuring
    /\ \E o \in CliIntFlags :
        /\ cliConfig[o[1]][o[2]] = 0
        /\ cliConfig' = [cliConfig EXCEPT ![o[1]][o[2]] = o[3]]
    /\ given' = given + 1
    /\ UNCHANGED <<authVars, calleeVars, runVars, dbVars, configFileFlag, confFileAt, confFileOK, fileCfg, externalIDs,
                   ovsUp, files, globals, defaults, initRet>>

GiveStrFlag ==
    /\ Configuring
    /\ \E o \in CliStrFlags :
        /\ cliConfig[o[1]][o[2]] = <<>>
        /\ cliConfig' = [cliConfig EXCEPT ![o[1]][o[2]] = o[3]]
    /\ given' = given + 1
    /\ UNCHANGED <<authVars, calleeVars, runVars, dbVars, configFileFlag, confFileAt, confFileOK, fileCfg, externalIDs,
                   ovsUp, files, globals, defaults, initRet>>

\* -nb-address / -sb-address
GiveAddressFlag ==
    /\ Configuring
    /\ \E sec \in OvnSections, es \in CliAddrs :
        /\ cliConfig[sec].Address = <<>>
        /\ cliConfig' = [cliConfig EXCEPT ![sec].Address = RenderList(es)]
    /\ given' = given + 1
    /\ UNCHANGED <<authVars, calleeVars, runVars, dbVars, configFileFlag, confFileAt, confFileOK, fileCfg, externalIDs,
                   ovsUp, files, globals, defaults, initRet>>

\* -nb-client-privkey, -nb-client-cert, -nb-client-cacert and the sb ones
GiveCertFlags ==
    /\ Configuring
    /\ \E sec \in OvnSections, t \in CliCerts :
        /\ ~AnyCertGiven(cliConfig[sec].ClientPrivKey, cliConfig[sec].ClientCert,
                         cliConfig[sec].ClientCACert)
        /\ cliConfig' = [cliConfig EXCEPT ![sec].ClientPrivKey = t[1],
                                          ![sec].ClientCert = t[2],
                                          ![sec].ClientCACert = t[3]]
    /\ given' = given + 1
    /\ UNCHANGED <<authVars, calleeVars, runVars, dbVars, configFileFlag, confFileAt, confFileOK, fileCfg, externalIDs,
                   ovsUp, files, globals, defaults, initRet>>

\* The config file an option is written to: the one there is, or a new one
\* at the default path or at a path of its own, which -config-file names or
\* which is left to the caller of InitConfigWithPath to name.
ConfigFilePlaced ==
    \/ confFileAt # <<>> /\ UNCHANGED <<configFileFlag, confFileAt>>
    \/ /\ confFileAt = <<>> /\ configFileFlag = <<>>
       /\ \E p \in {DefaultConfigFile, GivenConfigFile} :
            /\ confFileAt' = p
            /\ configFileFlag' \in (IF p = GivenConfigFile THEN {p, <<>>} ELSE {<<>>})

WriteIntOption ==
    /\ Configuring /\ confFileOK
    /\ ConfigFilePlaced
    /\ \E o \in FileIntOptions :
        /\ fileCfg[o[1]][o[2]] = 0
        /\ fileCfg' = [fileCfg EXCEPT ![o[1]][o[2]] = o[3]]
    /\ given' = given + 1
    /\ UNCHANGED <<authVars, calleeVars, runVars, dbVars, cliConfig, confFileOK, externalIDs, ovsUp, files, globals,
                   defaults, initRet>>

WriteStrOption ==
    /\ Configuring /\ confFileOK
    /\ ConfigFilePlaced
    /\ \E o \in FileStrOptions :
        /\ fileCfg[o[1]][o[2]] = <<>>
        /\ fileCfg' = [fileCfg EXCEPT ![o[1]][o[2]] = o[3]]
    /\ given' = given + 1
    /\ UNCHANGED <<authVars, calleeVars, runVars, dbVars, cliConfig, confFileOK, externalIDs, ovsUp, files, globals,
                   defaults, initRet>>

WriteAddressOption ==
    /\ Configuring /\ confFileOK
    /\ ConfigFilePlaced
    /\ \E sec \in OvnSections, es \in FileAddrs :
        /\ fileCfg[sec].Address = <<>>
        /\ fileCfg' = [fileCfg EXCEPT ![sec].Address = RenderList(es)]
    /\ given' = given + 1
    /\ UNCHANGED <<authVars, calleeVars, runVars, dbVars, cliConfig, confFileOK, externalIDs, ovsUp, files, globals,
                   defaults, initRet>>

WriteCertOptions ==
    /\ Configuring /\ confFileOK
    /\ ConfigFilePlaced
    /\ \E sec \in OvnSections, t \in FileCerts :
        /\ ~AnyCertGiven(fileCfg[sec].ClientPrivKey, fileCfg[sec].ClientCert,
                         fileCfg[sec].ClientCACert)
        /\ fileCfg' = [fileCfg EXCEPT ![sec].ClientPrivKey = t[1],
                                      ![sec].ClientCert = t[2],
                                      ![sec].ClientCACert = t[3]]
    /\ given' = given + 1
    /\ UNCHANGED <<authVars, calleeVars, runVars, dbVars, cliConfig, confFileOK, externalIDs, ovsUp, files, globals,
                   defaults, initRet>>

\* -config-file names a file that is not there.
GiveMissingConfigFile ==
    /\ Configuring
    /\ confFileAt = <<>> /\ configFileFlag = <<>>
    /\ configFileFlag' = GivenConfigFile
    /\ given' = given + 1
    /\ UNCHANGED <<authVars, calleeVars, runVars, dbVars, cliConfig, confFileAt, confFileOK, fileCfg, externalIDs,
                   ovsUp, files, globals, defaults, initRet>>

\* The config file holds something gcfg cannot read.
MalformConfigFile ==
    /\ Configuring /\ confFileOK
    /\ ConfigFilePlaced
    /\ confFileOK' = FALSE
    /\ given' = given + 1
    /\ UNCHANGED <<authVars, calleeVars, runVars, dbVars, cliConfig, fileCfg, externalIDs, ovsUp, files, globals,
                   defaults, initRet>>

\* ovs-vsctl set Open_vSwitch . external_ids:<key>=<value>, by an administrator.
SetExternalID ==
    /\ Configuring /\ ovsUp
    /\ \E kv \in ExtValues :
        /\ externalIDs[kv[1]] = <<>>
        /\ externalIDs' = [externalIDs EXCEPT ![kv[1]] = kv[2]]
    /\ given' = given + 1
    /\ UNCHANGED <<authVars, calleeVars, runVars, dbVars, cliConfig, configFileFlag, confFileAt, confFileOK, fileCfg,
                   ovsUp, files, globals, defaults, initRet>>

\* ovs-vsctl cannot be run, or cannot reach the database.
BreakOVS ==
    /\ Configuring /\ ovsUp
    /\ ovsUp' = FALSE
    /\ given' = given + 1
    /\ UNCHANGED <<authVars, calleeVars, runVars, dbVars, cliConfig, configFileFlag, confFileAt, confFileOK, fileCfg,
                   externalIDs, files, globals, defaults, initRet>>

\* One call of InitConfigWithPath, with the Defaults the caller asks for and
\* the config file it names, or of InitConfig, which names none.
CallInitConfig ==
    /\ ~initRet.done
    /\ \E dflt \in DefaultsSet, logOpens \in BOOLEAN, configFile \in {<<>>, GivenConfigFile} :
        \E r \in {InitConfigWithPath(configFile, dflt, logOpens)} :
            /\ defaults' = dflt
            /\ Default' = r.Default /\ Logging' = r.Logging /\ CNI' = r.CNI
            /\ Kubernetes' = r.Kubernetes
            /\ OvnNorth' = r.OvnNorth /\ OvnSouth' = r.OvnSouth
            /\ logOutput' = r.logOutput
            /\ files' = r.files
            /\ initRet' = [done |-> TRUE, arg |-> configFile, path |-> r.path,
                           err |-> r.err]
    /\ UNCHANGED <<authVars, calleeVars, runVars, dbVars, envVars>>

Next ==
    \/ GiveIntFlag \/ GiveStrFlag \/ GiveAddressFlag \/ GiveCertFlags
    \/ WriteIntOption \/ WriteStrOption \/ WriteAddressOption \/ WriteCertOptions
    \/ GiveMissingConfigFile \/ MalformConfigFile
    \/ SetExternalID \/ BreakOVS
    \/ CallInitConfig

Spec == Init /\ [][Next]_vars

\* ------------------------------------------------ net, strconv

\* The text of the cluster-subnet and service-cluster-ip-range options is a
\* sequence of characters: a decimal number is read digit by digit.
Digits == <<"0", "1", "2", "3", "4", "5", "6", "7", "8", "9">>
IsDigit(c) == \E i \in 1..10 : Digits[i] = c
DigitValue(c) == (CHOOSE i \in 1..10 : Digits[i] = c) - 1

\* net.dtoi(s): the decimal number s starts with, [n, i, ok] with i the
\* number of characters read; not ok when there is no digit or the number
\* reaches 0xFFFFFF.
RECURSIVE dtoiFrom(_, _, _)
dtoiFrom(s, i, n) ==
    IF i < Len(s) /\ IsDigit(s[i + 1])
    THEN IF n * 10 + DigitValue(s[i + 1]) >= 16777215
         THEN [n |-> 16777215, i |-> i, ok |-> FALSE]
         ELSE dtoiFrom(s, i + 1, n * 10 + DigitValue(s[i + 1]))
    ELSE IF i = 0 THEN [n |-> 0, i |-> 0, ok |-> FALSE]
    ELSE [n |-> n, i |-> i, ok |-> TRUE]

dtoi(s) == dtoiFrom(s, 0, 0)

\* The rest of net.parseIPv4 once d = dtoi(t) is known.
RECURSIVE parseIPv4From(_, _, _)
parseIPv4Octet(t, d, i, p) ==
    IF ~d.ok \/ d.n > 255 THEN <<>>
    ELSE parseIPv4From(From(t, d.i + 1), i + 1, Append(p, d.n))

\* net.parseIPv4(s) with i octets read into p: the four octets, <<>> for nil.
parseIPv4From(s, i, p) ==
    IF i = 4 THEN (IF Len(s) # 0 THEN <<>> ELSE p)
    ELSE IF Len(s) = 0 THEN <<>>
    ELSE IF i > 0 /\ s[1] # "." THEN <<>>
    ELSE IF i > 0 THEN parseIPv4Octet(Tail(s), dtoi(Tail(s)), i, p)
    ELSE parseIPv4Octet(s, dtoi(s), i, p)

parseIPv4(s) == parseIPv4From(s, 0, <<>>)

\* The bits of byte k (1..4) that net.CIDRMask(n, 32) sets.
MaskBits(n, k) ==
    IF n >= 8 * k THEN 8 ELSE IF n <= 8 * (k - 1) THEN 0 ELSE n - 8 * (k - 1)

\* A byte and-ed with a mask byte of that many leading ones.
AndMask(octet, bits) == (octet \div 2^(8 - bits)) * 2^(8 - bits)

\* ip.Mask(net.CIDRMask(n, 32)).
MaskIP(ip, n) == [k \in 1..4 |-> AndMask(ip[k], MaskBits(n, k))]

\* An *net.IPNet: the network address and the number of ones of the mask.
IPNet(ip, ones) == [IP |-> ip, Mask |-> ones]
NilIPNet == IPNet(<<>>, 0)

ErrInvalidCIDR == "invalid CIDR address"

\* The rest of net.ParseCIDR once the address and the mask are read.
ParseCIDRFields(ip, mask, d) ==
    IF ip = <<>> \/ ~d.ok \/ d.i # Len(mask) \/ d.n > 32
    THEN [err |-> ErrInvalidCIDR, ip |-> <<>>, net |-> NilIPNet]
    ELSE [err |-> "", ip |-> ip, net |-> IPNet(MaskIP(ip, d.n), d.n)]

\* net.ParseCIDR(s): [err, ip, net].  A text without ":" is never an IPv6
\* address, so only the IPv4 form can be accepted here.
ParseCIDR(s) ==
    IF IndexOf(s, "/") = 0
    THEN [err |-> ErrInvalidCIDR, ip |-> <<>>, net |-> NilIPNet]
    ELSE ParseCIDRFields(parseIPv4(SubSeq(s, 1, IndexOf(s, "/") - 1)),
                         From(s, IndexOf(s, "/") + 1),
                         dtoi(From(s, IndexOf(s, "/") + 1)))

\* (*net.IPNet).Contains(ip) for IPv4.
Contains(n, ip) ==
    \A k \in 1..4 :
        AndMask(n.IP[k], MaskBits(n.Mask, k)) = AndMask(ip[k], MaskBits(n.Mask, k))

ErrSyntax == "invalid syntax"

\* strconv.ParseUint(s, 10, 32): [err, n].  The numbers of the model are
\* far below 2^32, where ParseUint reports a range error.
RECURSIVE ParseUintFrom(_, _)
ParseUintFrom(s, n) ==
    IF s = <<>> THEN [err |-> "", n |-> n]
    ELSE IF ~IsDigit(s[1]) THEN [err |-> ErrSyntax, n |-> 0]
    ELSE ParseUintFrom(Tail(s), n * 10 + DigitValue(s[1]))

ParseUint(s) == IF s = <<>> THEN [err |-> ErrSyntax, n |-> 0] ELSE ParseUintFrom(s, 0)

\* ------------------------------------------------ parseClusterSubnetEntries

ErrSubnetFormat  == "cluster-cidr not formatted properly"
ErrSubnetOverlap == "CIDR overlaps with another cluster network CIDR"

\* A mutant of cidrsOverlap: only an earlier entry inside the new one counts.
cidrsOverlapOneWay(cidr, cidrList) ==
    \E i \in 1..Len(cidrList) : Contains(cidr, cidrList[i].CIDR.IP)

\* cidrsOverlap(cidr, cidrList).
cidrsOverlap(cidr, cidrList) ==
    \E i \in 1..Len(cidrList) :
        \/ Contains(cidr, cidrList[i].CIDR.IP)
        \/ Contains(cidrList[i].CIDR, cidr.IP)

\* A mutant of HostSubnetLength: the third field is ignored.
HostSubnetLengthIgnored(splitClusterEntry) == [err |-> "", n |-> 24]

\* The host subnet length of an entry of two or three fields: [err, n].
HostSubnetLength(splitClusterEntry) ==
    IF Len(splitClusterEntry) = 3 THEN ParseUint(splitClusterEntry[3])
    ELSE [err |-> "", n |-> 24]

CIDRNetworkEntry(cidr, hostSubnetLength) ==
    [CIDR |-> cidr, HostSubnetLength |-> hostSubnetLength]

\* The loop of parseClusterSubnetEntries over the entries left, with the
\* entries parsed so far: [err, list].
RECURSIVE parseEntriesFrom(_, _)
parseEntryCIDR(rest, parsed, u, c) ==
    IF c.err # "" THEN [err |-> c.err, list |-> <<>>]
    ELSE IF cidrsOverlap(c.net, parsed) THEN [err |-> ErrSubnetOverlap, list |-> <<>>]
    ELSE parseEntriesFrom(rest, Append(parsed, CIDRNetworkEntry(c.net, u.n)))

parseEntryFields(rest, parsed, f, u) ==
    IF u.err # "" THEN [err |-> u.err, list |-> <<>>]
    ELSE parseEntryCIDR(rest, parsed, u, ParseCIDR(f[1] \o <<"/">> \o f[2]))

parseEntry(rest, parsed, f) ==
    IF Len(f) \notin {2, 3} THEN [err |-> ErrSubnetFormat, list |-> <<>>]
    ELSE parseEntryFields(rest, parsed, f, HostSubnetLength(f))

parseEntriesFrom(clusterEntriesList, parsed) ==
    IF clusterEntriesList = <<>> THEN [err |-> "", list |-> parsed]
    ELSE parseEntry(Tail(clusterEntriesList), parsed, Split(Head(clusterEntriesList), "/"))

parseClusterSubnetEntries(subnetCmd) ==
    parseEntriesFrom(Split(subnetCmd, ","), <<>>)

\* ------------------------------------------------ SpecSubnets

\* Longest list of cluster subnets in one cluster-subnet option.
MaxEntries == 3

\* strconv.Itoa for a natural number.
RECURSIVE Dec(_)
Dec(n) == IF n < 10 THEN <<Digits[n + 1]>> ELSE Dec(n \div 10) \o <<Digits[(n % 10) + 1]>>

Dotted(ip) ==
    Dec(ip[1]) \o <<".">> \o Dec(ip[2]) \o <<".">> \o Dec(ip[3]) \o <<".">> \o Dec(ip[4])

Slash == <<"/">>

\* An item of the cluster-subnet option: its text, the number of
\* "/"-separated fields, and for an item of the documented form the address,
\* the mask length and the host subnet length it spells (0: not given).
SubnetItem(ip, mask, len) ==
    [text |-> Dotted(ip) \o Slash \o Dec(mask) \o (IF len = 0 THEN <<>> ELSE Slash \o Dec(len)),
     fields |-> IF len = 0 THEN 2 ELSE 3, formed |-> TRUE,
     ip |-> ip, mask |-> mask, len |-> len]

OddItem(text, fields) ==
    [text |-> text, fields |-> fields, formed |-> FALSE, ip |-> <<>>, mask |-> 0, len |-> 0]

FormedItems ==
    { SubnetItem(<<10, 128, 0, 0>>, 14, 23),
      SubnetItem(<<10, 128, 0, 0>>, 14, 0),
      SubnetItem(<<10, 130, 0, 0>>, 16, 24),
      SubnetItem(<<10, 130, 5, 7>>, 16, 25),
      SubnetItem(<<10, 0, 0, 0>>, 16, 8),
      SubnetItem(<<10, 0, 0, 0>>, 24, 0),
      SubnetItem(<<192, 168, 0, 0>>, 16, 24),
      SubnetItem(<<0, 0, 0, 0>>, 0, 24) }

OddItems ==
    { OddItem(<<>>, 1),
      OddItem(Dotted(<<10, 0, 0, 0>>), 1),
      OddItem(Dotted(<<10, 0, 0, 0>>) \o Slash \o Dec(8) \o Slash \o Dec(24) \o Slash \o Dec(1), 4),
      OddItem(Dotted(<<10, 0, 0, 0>>) \o Slash \o Dec(33), 2),
      OddItem(Dec(10) \o <<".">> \o Dec(0) \o <<".">> \o Dec(0) \o Slash \o Dec(8), 2),
      OddItem(Dotted(<<10, 0, 0, 0>>) \o Slash \o Dec(8) \o Slash \o <<"x">>, 3),
      OddItem(Dotted(<<10, 0, 0, 0>>) \o Slash \o Dec(8) \o Slash, 3),
      OddItem(Dec(300) \o <<".">> \o Dec(0) \o <<".">> \o Dec(0) \o <<".">> \o Dec(0) \o Slash \o Dec(8), 2) }

SubnetItems == FormedItems \cup OddItems

\* The items joined with ",".
RECURSIVE RenderItems(_)
RenderItems(items) ==
    IF Len(items) = 0 THEN <<>>
    ELSE IF Len(items) = 1 THEN items[1].text
    ELSE items[1].text \o <<",">> \o RenderItems(Tail(items))

InitSubnets ==
    /\ AuthIdle /\ RunIdle /\ DBIdle /\ ConfIdle /\ files = {} /\ MgmtIdle /\ NodeIdle
    /\ PidIdle
    /\ subnetItems \in UNION { [1..n -> SubnetItems] : n \in 1..MaxEntries }
    /\ clusterSubnetCmd = RenderItems(subnetItems)
    /\ subnetRet = NoSubnetRet

CallParseClusterSubnetEntries ==
    /\ ~subnetRet.done
    /\ \E r \in {parseClusterSubnetEntries(clusterSubnetCmd)} :
        subnetRet' = [done |-> TRUE, err |-> r.err, list |-> r.list]
    /\ UNCHANGED <<authVars, confVars, runVars, dbVars, mgmtVars, nodeVars, pidVars,
                   subnetItems, clusterSubnetCmd>>

NextSubnets == CallParseClusterSubnetEntries

SpecSubnets == InitSubnets /\ [][NextSubnets]_vars

\* ------------------------------------------------ CreateManagementPort

UpperCase == <<"A", "B", "C", "D", "E", "F", "G", "H", "I", "J", "K", "L", "M",
               "N", "O", "P", "Q", "R", "S", "T", "U", "V", "W", "X", "Y", "Z">>
LowerCase == <<"a", "b", "c", "d", "e", "f", "g", "h", "i", "j", "k", "l", "m",
               "n", "o", "p", "q", "r", "s", "t", "u", "v", "w", "x", "y", "z">>

\* strings.ToLower on a sequence of characters.
ToLower(s) ==
    [i \in 1..Len(s) |->
        IF \E k \in 1..26 : UpperCase[k] = s[i]
        THEN LowerCase[CHOOSE k \in 1..26 : UpperCase[k] = s[i]]
        ELSE s[i]]

\* util.NextIP(ip): the address after ip.
NextIP(ip) ==
    IF ip[4] < 255 THEN [ip EXCEPT ![4] = @ + 1]
    ELSE IF ip[3] < 255 THEN [ip EXCEPT ![3] = @ + 1, ![4] = 0]
    ELSE IF ip[2] < 255 THEN [ip EXCEPT ![2] = @ + 1, ![3] = 0, ![4] = 0]
    ELSE [ip EXCEPT ![1] = (@ + 1) % 256, ![2] = 0, ![3] = 0, ![4] = 0]

\* util.GetK8sMgmtIntfName(nodeName).
GetK8sMgmtIntfName(nodeName) == <<"k8s-">> \o nodeName

\* Calls of util.RunOVSVsctl, util.RunOVNNbctl and util.RunIP: the
\* arguments given, each a string.
RunOVSVsctl(args) == [cmd |-> "ovs-vsctl", args |-> args]
RunOVNNbctl(args) == [cmd |-> "ovn-nbctl", args |-> args]
RunIP(args)       == [cmd |-> "ip", args |-> args]

\* One string per word.
Words(ws) == [i \in 1..Len(ws) |-> <<ws[i]>>]

\* The route commands of configureManagementPort for the subnets left.
RECURSIVE RouteCommands(_, _)
RouteCommands(subnets, routerIP) ==
    IF subnets = <<>> THEN <<>>
    ELSE << RunIP(Words(<<"route", "flush">>) \o <<Head(subnets)>>),
            RunIP(Words(<<"route", "add">>) \o <<Head(subnets)>> \o Words(<<"via">>)
                  \o <<routerIP>>) >>
         \o RouteCommands(Tail(subnets), routerIP)

\* A mutant of configureManagementPortCommands: the addresses of the
\* interface are not flushed.
configureManagementPortNoFlush(clusterSubnet, clusterServicesSubnet, routerIP, routerMac, interfaceName, interfaceIP) ==
    << RunIP(Words(<<"link", "set">>) \o <<interfaceName>> \o Words(<<"up">>)),
       RunIP(Words(<<"addr", "add">>) \o <<interfaceIP>> \o Words(<<"dev">>)
             \o <<interfaceName>>) >>
    \o RouteCommands(clusterSubnet, routerIP)
    \o (IF clusterServicesSubnet # <<>>
        THEN RouteCommands(<<clusterServicesSubnet>>, routerIP) ELSE <<>>)
    \o << RunIP(Words(<<"neigh", "add">>) \o <<routerIP>> \o Words(<<"dev">>)
                \o <<interfaceName>> \o Words(<<"lladdr">>) \o <<routerMac>>) >>

\* The commands configureManagementPort runs on Linux when none fails, in
\* order.
configureManagementPortCommands(clusterSubnet, clusterServicesSubnet, routerIP, routerMac, interfaceName, interfaceIP) ==
    << RunIP(Words(<<"link", "set">>) \o <<interfaceName>> \o Words(<<"up">>)),
       RunIP(Words(<<"addr", "flush", "dev">>) \o <<interfaceName>>),
       RunIP(Words(<<"addr", "add">>) \o <<interfaceIP>> \o Words(<<"dev">>)
             \o <<interfaceName>>) >>
    \o RouteCommands(clusterSubnet, routerIP)
    \o (IF clusterServicesSubnet # <<>>
        THEN RouteCommands(<<clusterServicesSubnet>>, routerIP) ELSE <<>>)
    \o << RunIP(Words(<<"neigh", "add">>) \o <<routerIP>> \o Words(<<"dev">>)
                \o <<interfaceName>> \o Words(<<"lladdr">>) \o <<routerMac>>) >>

\* A mutant of PortIP: the management port gets the router's address.
PortIPSame(routerIP) == routerIP

\* The address of the management port, from the router's.
PortIP(routerIP) == NextIP(routerIP)

\* The commands CreateManagementPort runs on Linux when none fails, in
\* order: those of its own, then those of configureManagementPort.
CreateManagementPortCommands(nodeName, ip, ones, clusterServicesSubnet, clusterSubnet, macAddress, routerMac) ==
    << RunOVSVsctl(Words(<<"--", "--may-exist", "add-br", "br-int">>)),
       RunOVSVsctl(Words(<<"--", "--may-exist", "add-port", "br-int">>)
                   \o <<GetK8sMgmtIntfName(nodeName)>>
                   \o Words(<<"--", "set", "interface">>)
                   \o <<GetK8sMgmtIntfName(nodeName)>>
                   \o << <<"type=internal">>, <<"mtu_request=">> \o Dec(Default.MTU),
                         <<"external-ids:iface-id=k8s-">> \o nodeName >>),
       RunOVSVsctl(Words(<<"--if-exists", "get", "interface">>)
                   \o <<GetK8sMgmtIntfName(nodeName)>> \o Words(<<"mac_in_use">>)),
       RunOVNNbctl(Words(<<"--", "--may-exist", "lsp-add">>)
                   \o << nodeName, <<"k8s-">> \o nodeName >>
                   \o Words(<<"--", "lsp-set-addresses">>)
                   \o << <<"k8s-">> \o nodeName,
                         macAddress \o <<" ">> \o Dotted(PortIP(NextIP(ip))) >>),
       RunOVNNbctl(Words(<<"lsp-get-addresses">>) \o << <<"stor-">> \o nodeName >>) >>
    \o configureManagementPortCommands(clusterSubnet, clusterServicesSubnet,
           Dotted(NextIP(ip)), routerMac, GetK8sMgmtIntfName(nodeName),
           Dotted(PortIP(NextIP(ip))) \o <<"/">> \o Dec(ones))

ErrLocalSubnet == "Failed to parse local subnet"
ErrNoMac       == "Failed to get mac address"
ErrCommand     == "command failed"

NoMac == <<"[]">>

\* The place of a command in the order of the steps: create br-int, add the
\* management interface, read its MAC, add the logical switch port, read
\* the router MAC, link up, address flush, address add, route flush, route
\* add, neighbour add.
Step(c) ==
    IF c.cmd = "ovs-vsctl"
    THEN (IF c.args[1] = <<"--if-exists">> THEN 3
          ELSE IF c.args[3] = <<"add-br">> THEN 1 ELSE 2)
    ELSE IF c.cmd = "ovn-nbctl"
    THEN (IF c.args[1] = <<"lsp-get-addresses">> THEN 5 ELSE 4)
    ELSE IF c.args[1] = <<"link">> THEN 6
    ELSE IF c.args[1] = <<"addr">> THEN (IF c.args[2] = <<"flush">> THEN 7 ELSE 8)
    ELSE IF c.args[1] = <<"route">> THEN (IF c.args[2] = <<"flush">> THEN 9 ELSE 10)
    ELSE 11

\* The node before any management port was made.
HostEmpty ==
    [bridges |-> {}, ports |-> {}, lsps |-> {}, up |-> {}, addrs |-> {}, routes |-> {},
     neighs |-> {}]

\* What a command that succeeds does to the node.  ovs-vsctl --may-exist
\* and ovn-nbctl --may-exist make what is missing and set what they are told
\* to set; a new interface gets the MAC address fresh; ip addr flush and ip
\* route flush remove, ip addr add, ip route add and ip neigh add put in.
Effect(host, c, fresh) ==
    IF Step(c) = 1 THEN [host EXCEPT !.bridges = @ \cup {c.args[4]}]
    ELSE IF Step(c) = 2
    THEN [host EXCEPT !.ports =
             IF \E q \in @ : q.name = c.args[5]
             THEN {[q EXCEPT !.set = IF q.name = c.args[5]
                                     THEN <<c.args[10], c.args[11], c.args[12]>>
                                     ELSE q.set] : q \in @}
             ELSE @ \cup {[name |-> c.args[5], bridge |-> c.args[4], mac |-> fresh,
                           set |-> <<c.args[10], c.args[11], c.args[12]>>]}]
    ELSE IF Step(c) = 4
    THEN [host EXCEPT !.lsps =
             {l \in @ : l.name # c.args[5]}
             \cup {[switch |-> c.args[4], name |-> c.args[5], addresses |-> c.args[9]]}]
    ELSE IF Step(c) = 6 THEN [host EXCEPT !.up = @ \cup {c.args[3]}]
    ELSE IF Step(c) = 7 THEN [host EXCEPT !.addrs = {a \in @ : a.dev # c.args[4]}]
    ELSE IF Step(c) = 8
    THEN [host EXCEPT !.addrs = @ \cup {[dev |-> c.args[5], addr |-> c.args[3]]}]
    ELSE IF Step(c) = 9 THEN [host EXCEPT !.routes = {r \in @ : r.dst # c.args[3]}]
    ELSE IF Step(c) = 10
    THEN [host EXCEPT !.routes = @ \cup {[dst |-> c.args[3], via |-> c.args[5]]}]
    ELSE IF Step(c) = 11
    THEN [host EXCEPT !.neighs =
             @ \cup {[ip |-> c.args[3], dev |-> c.args[5], lladdr |-> c.args[7]]}]
    ELSE host

\* The commands the node refuses: ip addr add, ip route add and ip neigh
\* add of what is there already ("File exists").
Refuses(host, c) ==
    \/ Step(c) = 8 /\ \E a \in host.addrs : a.dev = c.args[5] /\ a.addr = c.args[3]
    \/ Step(c) = 10 /\ \E r \in host.routes : r.dst = c.args[3]
    \/ Step(c) = 11 /\ \E n \in host.neighs : n.ip = c.args[3] /\ n.dev = c.args[5]

\* The first command of plan, from the i-th on, that the node refuses when
\* those before it succeeded; 0 when it refuses none.
RECURSIVE FirstRefused(_, _, _, _)
FirstRefused(host, plan, i, fresh) ==
    IF i > Len(plan) THEN 0
    ELSE IF Refuses(host, plan[i]) THEN i
    ELSE FirstRefused(Effect(host, plan[i], fresh), plan, i + 1, fresh)

\* The node after the commands run, those that failed left out.
RECURSIVE HostAfter(_, _, _)
HostAfter(host, run, fresh) ==
    IF run = <<>> THEN host
    ELSE HostAfter(IF Head(run).ok THEN Effect(host, Head(run), fresh) ELSE host,
                   Tail(run), fresh)

\* What ovs-vsctl get interface mac_in_use reads once the interface is
\* there: the MAC address of the interface the node has, fresh for a new one.
MacInUse(host, interfaceName, fresh) ==
    IF \E q \in host.ports : q.name = interfaceName
    THEN (CHOOSE q \in host.ports : q.name = interfaceName).mac
    ELSE fresh

\* The command that fails: the one made to fail (failAt, 0 for none) or
\* the first one the node refuses, whichever comes first.
FailsAt(failAt, refused) ==
    IF failAt # 0 /\ (refused = 0 \/ failAt <= refused) THEN failAt ELSE refused

\* A mutant of RunCommands: a failed command does not stop the later ones.
RunCommandsThrough(plan, failAt, macAddress, neighNotExist) ==
    [cmds |-> [i \in 1..Len(plan) |-> Command(plan[i].cmd, plan[i].args, i # failAt)],
     err  |-> IF failAt \in 1..3 THEN ErrCommand
              ELSE IF macAddress = NoMac THEN ErrNoMac
              ELSE IF failAt \in 4..(Len(plan) - 1) THEN ErrCommand
              ELSE IF failAt = Len(plan) /\ neighNotExist THEN ErrCommand
              ELSE ""]

\* The commands run when the one at failAt fails (0: none does), and the
\* error returned.  The MAC address is looked at after the third command;
\* a failure of the last command, ip neigh add, is returned only when it
\* is a "does not exist" error.
RunCommands(plan, failAt, macAddress, neighNotExist) ==
    LET last == IF failAt \in 1..3 THEN failAt
                ELSE IF macAddress = NoMac THEN 3
                ELSE IF failAt \in 4..Len(plan) THEN failAt
                ELSE Len(plan)
    IN  [cmds |-> [i \in 1..last |-> Command(plan[i].cmd, plan[i].args, i # failAt)],
         err  |-> IF failAt \in 1..3 THEN ErrCommand
                  ELSE IF macAddress = NoMac THEN ErrNoMac
                  ELSE IF failAt \in 4..(Len(plan) - 1) THEN ErrCommand
                  ELSE IF failAt = Len(plan) /\ neighNotExist THEN ErrCommand
                  ELSE ""]

\* CreateManagementPort once localSubnet is parsed (c): [err, cmds].
CreateManagementPortParsed(c, nodeName, clusterServicesSubnet, clusterSubnet, failAt, macAddress, routerMac, neighNotExist) ==
    IF c.err # "" THEN [err |-> ErrLocalSubnet, cmds |-> <<>>]
    ELSE RunCommands(CreateManagementPortCommands(ToLower(nodeName), c.ip, c.net.Mask,
                         clusterServicesSubnet, clusterSubnet, macAddress, routerMac),
                     failAt, macAddress, neighNotExist)

\* CreateManagementPort(nodeName, localSubnet, clusterServicesSubnet,
\* clusterSubnet) on Linux, with what the commands do: the one that fails,
\* the MAC addresses read, the kind of failure of ip neigh add.
CreateManagementPort(nodeName, localSubnet, clusterServicesSubnet, clusterSubnet, failAt, macAddress, routerMac, neighNotExist) ==
    CreateManagementPortParsed(ParseCIDR(localSubnet), nodeName, clusterServicesSubnet,
                               clusterSubnet, failAt, macAddress, routerMac, neighNotExist)

\* ------------------------------------------------ SpecMgmt

NodeNames == { <<"n", "o", "d", "e", "1">>, <<"N", "o", "d", "e", "1">> }

LocalSubnets ==
    { SubnetItem(<<10, 128, 2, 0>>, 24, 0),
      SubnetItem(<<10, 128, 0, 0>>, 23, 0),
      SubnetItem(<<10, 128, 2, 5>>, 24, 0),
      SubnetItem(<<10, 128, 2, 255>>, 24, 0),
      OddItem(Dotted(<<10, 128, 2, 0>>), 1) }

MgmtClusterSubnets ==
    { <<SubnetItem(<<10, 128, 0, 0>>, 14, 0).text>>,
      <<SubnetItem(<<10, 128, 0, 0>>, 14, 0).text, SubnetItem(<<11, 11, 0, 0>>, 16, 0).text>> }

MgmtServiceSubnets == { <<>>, SubnetItem(<<10, 96, 0, 0>>, 12, 0).text }

MAC1 == <<"0a:00:00:00:00:01">>
MAC2 == <<"0a:00:00:00:00:02">>

\* The most commands one call runs: with two cluster subnets and a
\* services subnet.
MaxCommands == 15

NoMgmtRet == [done |-> FALSE, err |-> ""]

\* A node where an earlier management port was made with another host
\* subnet: the bridge and the interface are there, with an address and a
\* route of then.
HostLeftOver(nodeName) ==
    [HostEmpty EXCEPT
        !.bridges = {<<"br-int">>},
        !.ports = {[name |-> GetK8sMgmtIntfName(ToLower(nodeName)), bridge |-> <<"br-int">>,
                    mac |-> MAC1, set |-> <<>>]},
        !.addrs = {[dev |-> GetK8sMgmtIntfName(ToLower(nodeName)),
                    addr |-> Dotted(<<10, 128, 9, 2>>) \o <<"/">> \o Dec(24)]},
        !.routes = {[dst |-> SubnetItem(<<10, 128, 0, 0>>, 14, 0).text,
                     via |-> Dotted(<<10, 128, 9, 1>>)]}]

InitMgmt ==
    /\ AuthIdle /\ RunIdle /\ DBIdle /\ ConfIdle /\ files = {} /\ SubnetIdle /\ NodeIdle
    /\ PidIdle
    /\ mgmtArgs \in [nodeName : NodeNames, localItem : LocalSubnets,
                     clusterServicesSubnet : MgmtServiceSubnets,
                     clusterSubnet : MgmtClusterSubnets]
    /\ mgmtCmds = <<>>
    /\ mgmtRet = NoMgmtRet
    /\ mgmtHost \in {HostEmpty, HostLeftOver(mgmtArgs.nodeName)}
    /\ mgmtAgain = [done |-> FALSE]

\* The commands of a call with the arguments mgmtArgs when none fails.
ManagementPlan(c, macAddress) ==
    IF c.err # "" THEN <<>>
    ELSE CreateManagementPortCommands(ToLower(mgmtArgs.nodeName), c.ip, c.net.Mask,
             mgmtArgs.clusterServicesSubnet, mgmtArgs.clusterSubnet, macAddress, MAC2)

\* A call of CreateManagementPort on the node host: the command failAt is
\* made to fail (0: none), a new interface gets the MAC address fresh, and
\* the node refuses what it has already.  [err, cmds].
CreateManagementPortOn(host, failAt, fresh, neighNotExist) ==
    LET mac == MacInUse(host, GetK8sMgmtIntfName(ToLower(mgmtArgs.nodeName)), fresh)
        refused == FirstRefused(host,
                       ManagementPlan(ParseCIDR(mgmtArgs.localItem.text), mac), 1, fresh)
    IN  CreateManagementPort(mgmtArgs.nodeName, mgmtArgs.localItem.text,
                             mgmtArgs.clusterServicesSubnet, mgmtArgs.clusterSubnet,
                             FailsAt(failAt, refused), mac, MAC2,
                             neighNotExist /\ failAt # 0
                                 /\ FailsAt(failAt, refused) = failAt)

CallCreateManagementPort ==
    /\ ~mgmtRet.done
    /\ \E failAt \in 0..MaxCommands, macAddress \in {NoMac, MAC1}, neighNotExist \in BOOLEAN :
        \E r \in {CreateManagementPortOn(mgmtHost, failAt, macAddress, neighNotExist)} :
            /\ mgmtCmds' = r.cmds
            /\ mgmtRet' = [done |-> TRUE, err |-> r.err]
            /\ mgmtHost' = HostAfter(mgmtHost, r.cmds, macAddress)
    /\ UNCHANGED <<authVars, confVars, runVars, dbVars, subnetVars, nodeVars, pidVars,
                   mgmtArgs, mgmtAgain>>

\* The command of the first call that failed, 0 when none did.
FailedBefore ==
    IF \E i \in 1..Len(mgmtCmds) : ~mgmtCmds[i].ok
    THEN CHOOSE i \in 1..Len(mgmtCmds) : ~mgmtCmds[i].ok
    ELSE 0

\* CreateManagementPort called again with the same arguments, on the node
\* as the first call left it; the command that failed in the first call
\* fails again, or none is made to fail.
CallCreateManagementPortAgain ==
    /\ mgmtRet.done /\ ~mgmtAgain.done
    /\ \E failAt \in {0, FailedBefore}, macAddress \in {NoMac, MAC1} :
        \E r \in {CreateManagementPortOn(mgmtHost, failAt, macAddress,
                                         mgmtRet.err # "")} :
            /\ mgmtAgain' = [done |-> TRUE, err |-> r.err, cmds |-> r.cmds,
                             failAt |-> failAt, before |-> mgmtHost]
            /\ mgmtHost' = HostAfter(mgmtHost, r.cmds, macAddress)
    /\ UNCHANGED <<authVars, confVars, runVars, dbVars, subnetVars, nodeVars, pidVars,
                   mgmtArgs, mgmtCmds, mgmtRet>>

NextMgmt == CallCreateManagementPort \/ CallCreateManagementPortAgain

SpecMgmt == InitMgmt /\ [][NextMgmt]_vars

\* ------------------------------------------------ UpdateOvnNodeAuth

ErrUpdateIP    == "failed to parse OvnDBAuth a.OvnAddressForClient"
ErrUpdateNorth == "failed to update OvnNorth ClientAuth URL"
ErrUpdateSouth == "failed to update OvnSouth ClientAuth URL"

\* The rest of a.updateIP(newIP) once the address is split (s): [err, auth].
updateIPSplit(a, newIP, s) ==
    IF Len(s) # 3 THEN [err |-> ErrUpdateIP, auth |-> a]
    ELSE [err |-> "",
          auth |-> [a EXCEPT !.OvnAddressForClient = s[1] \o <<":">> \o newIP \o s[3]]]

\* a.updateIP(newIP): [err, auth].
updateIP(a, newIP) ==
    IF a.OvnAddressForClient # <<>>
    THEN updateIPSplit(a, newIP, Split(a.OvnAddressForClient, ":"))
    ELSE [err |-> "", auth |-> a]

\* The rest of UpdateOvnNodeAuth once OvnNorth is updated (n) and, when
\* that went well, OvnSouth (s): [err, north, south].
UpdateOvnNodeAuthBoth(south, n, s) ==
    IF n.err # "" THEN [err |-> ErrUpdateNorth, north |-> n.auth, south |-> south]
    ELSE IF s.err # "" THEN [err |-> ErrUpdateSouth, north |-> n.auth, south |-> s.auth]
    ELSE [err |-> "", north |-> n.auth, south |-> s.auth]

\* UpdateOvnNodeAuth(masterIP) on the ClientAuth of OvnNorth and OvnSouth.
UpdateOvnNodeAuth(north, south, newIP) ==
    UpdateOvnNodeAuthBoth(south, updateIP(north, newIP), updateIP(south, newIP))

\* ------------------------------------------------ SpecNode

\* The database addresses of a node, as InitConfig accepted them.
NodeAddrs ==
    { <<>>,
      <<Elem(<<"tcp">>, Colon, IP1, TRUE, Port1)>>,
      <<Elem(<<"ssl">>, URLSep, IP1, TRUE, Port2)>>,
      <<Elem(<<"tcp">>, Colon, IP2, TRUE, Port2)>>,
      <<Elem(<<"ssl">>, Colon, IP1, TRUE, Port1), Elem(<<"ssl">>, Colon, IP2, TRUE, Port1)>> }

MasterIPs == { IP1, IP2, <<"4", ".", "3", ".", "2", ".", "1">> }

\* The ClientAuth InitConfig builds for a database from such an address.
NodeAuth(direction, externalID, es) ==
    newOvnDBAuth(<<"ovn-", direction, "ctl">>, <<"ovn-", externalID>>, RenderList(es),
                 IF Len(es) > 0 /\ es[1].scheme = <<"ssl">> THEN KeyPath ELSE <<>>,
                 IF Len(es) > 0 /\ es[1].scheme = <<"ssl">> THEN CertPath ELSE <<>>,
                 IF Len(es) > 0 /\ es[1].scheme = <<"ssl">> THEN CAPath ELSE <<>>).auth

NoUpdRet == [done |-> FALSE, err |-> ""]

InitNode ==
    /\ AuthIdle /\ RunIdle /\ DBIdle /\ SubnetIdle /\ MgmtIdle /\ PidIdle
    /\ cliConfig = ZeroConfig /\ fileCfg = ZeroConfig
    /\ configFileFlag = <<>> /\ confFileAt = <<>> /\ confFileOK = TRUE
    /\ externalIDs = NoExternalIDs /\ ovsUp = TRUE /\ given = 0
    /\ files = {}
    /\ Default = InitialDefault /\ Logging = InitialLogging /\ CNI = InitialCNI
    /\ Kubernetes = InitialKubernetes
    /\ logOutput = <<"stderr">>
    /\ defaults = NoDefaults /\ initRet = [done |-> TRUE, arg |-> <<>>, path |-> <<>>, err |-> ""]
    /\ nodeArgs \in [north : NodeAddrs, south : NodeAddrs, masterIP : MasterIPs]
    /\ OvnNorth = [ClientAuth |-> NodeAuth("nb", "nb", nodeArgs.north)]
    /\ OvnSouth = [ClientAuth |-> NodeAuth("sb", "remote", nodeArgs.south)]
    /\ updRet = NoUpdRet

CallUpdateOvnNodeAuth ==
    /\ ~updRet.done
    /\ \E r \in {UpdateOvnNodeAuth(OvnNorth.ClientAuth, OvnSouth.ClientAuth,
                                   nodeArgs.masterIP)} :
        /\ OvnNorth' = [ClientAuth |-> r.north]
        /\ OvnSouth' = [ClientAuth |-> r.south]
        /\ updRet' = [done |-> TRUE, err |-> r.err]
    /\ UNCHANGED <<authVars, runVars, dbVars, subnetVars, mgmtVars, pidVars, envVars,
                   files, Default, Logging, CNI, Kubernetes, logOutput, defaults, initRet,
                   nodeArgs>>

NextNode == CallUpdateOvnNodeAuth

SpecNode == InitNode /\ [][NextNode]_vars

\* ------------------------------------------------ setupPIDFile, delPidfile

\* The pid of init, a process that is always there, and a pid that no
\* process has, as a dead ovnkube leaves it in its pidfile.
InitPid  == 1
StalePid == 77

\* fmt.Sprintf("%d", os.Getpid()), the bytes written to the pidfile.
PidText(p) == Dec(p)

\* A mutant of procCmdlineExists: no process is ever found.
procCmdlineExistsNever(ps, pid) == FALSE

\* os.Stat("/proc/" + string(pid) + "/cmdline") finds the file: pid is the
\* decimal text of the pid of a process that is there; with no text at all
\* the path is /proc//cmdline, which is /proc/cmdline.
procCmdlineExists(ps, pid) ==
    \/ pid = <<>>
    \/ pid = Dec(InitPid)
    \/ \E q \in Procs : ps[q].pc \notin {"idle", "dead"} /\ pid = Dec(q)

\* ioutil.WriteFile(pidfile, pid of p), its error logged and ignored.
WritePidfile(p) ==
    IF dirWritable
    THEN pidfileExists' = TRUE /\ pidfileData' = PidText(p)
    ELSE UNCHANGED <<pidfileExists, pidfileData>>

\* os.Remove(pidfile), its error logged.
RemovePidfile ==
    IF dirWritable /\ pidfileExists
    THEN pidfileExists' = FALSE /\ pidfileData' = <<>>
    ELSE UNCHANGED <<pidfileExists, pidfileData>>

\* The process p goes on as r.
Becomes(p, r) == procs' = [procs EXCEPT ![p] = r]
At(p, l)      == [procs[p] EXCEPT !.pc = l]

\* os.Exit(code), or main returning: deferred calls pending are not run,
\* the signal goroutine ends with the process.
Exits(p, code) == [procs[p] EXCEPT !.pc = "dead", !.exit = code]

\* The exit status of main: 0 when runOvnKube returns nil, 1 from
\* logrus.Fatal when it returns an error, 2 when it panics.
ExitStatusOf(end) == IF end = "nil" THEN 0 ELSE IF end = "err" THEN 1 ELSE 2

OtherVarsIdle == <<authVars, confVars, runVars, dbVars, subnetVars, mgmtVars, nodeVars>>

\* runOvnKube with -pidfile given, up to the call of setupPIDFile, and
\* setupPIDFile up to its os.Stat: delPidfile is deferred, the signal
\* goroutine is started.
StartOvnKube ==
    \E p \in Procs :
        /\ procs[p].pc = "idle"
        /\ Becomes(p, [At(p, "Stat") EXCEPT !.handler = "waiting"])
        /\ UNCHANGED <<OtherVarsIdle, pidfileExists, pidfileData, dirWritable>>

\* _, err := os.Stat(pidfile); os.IsNotExist(err)
StatPidfile ==
    \E p \in Procs :
        /\ procs[p].pc = "Stat"
        /\ Becomes(p, At(p, IF pidfileExists THEN "ReadFile" ELSE "WriteNew"))
        /\ UNCHANGED <<OtherVarsIdle, pidfileExists, pidfileData, dirWritable>>

\* The pidfile was not there: write it, return nil.
WriteNewPidfile ==
    \E p \in Procs :
        /\ procs[p].pc = "WriteNew"
        /\ WritePidfile(p)
        /\ Becomes(p, At(p, "run"))
        /\ UNCHANGED <<OtherVarsIdle, dirWritable>>

\* pid, err := ioutil.ReadFile(pidfile); an error is returned, and
\* runOvnKube returns it.
ReadPidfile ==
    \E p \in Procs :
        /\ procs[p].pc = "ReadFile"
        /\ Becomes(p, IF pidfileExists
                      THEN [At(p, "StatProc") EXCEPT !.pid = pidfileData]
                      ELSE [At(p, "deferStat") EXCEPT !.end = "err"])
        /\ UNCHANGED <<OtherVarsIdle, pidfileExists, pidfileData, dirWritable>>

\* _, err1 := os.Stat("/proc/" + string(pid[:]) + "/cmdline"); os.Exit(1)
\* unless os.IsNotExist(err1).
StatProcCmdline ==
    \E p \in Procs :
        /\ procs[p].pc = "StatProc"
        /\ Becomes(p, IF procCmdlineExists(procs, procs[p].pid)
                      THEN Exits(p, 1)
                      ELSE At(p, "WriteOver"))
        /\ UNCHANGED <<OtherVarsIdle, pidfileExists, pidfileData, dirWritable>>

\* The pid is left over from a dead process: write the pidfile, return nil.
WriteOverPidfile ==
    \E p \in Procs :
        /\ procs[p].pc = "WriteOver"
        /\ WritePidfile(p)
        /\ Becomes(p, At(p, "run"))
        /\ UNCHANGED <<OtherVarsIdle, dirWritable>>

\* The rest of runOvnKube ends without serving: it panics, before or after
\* stopChan is made, or returns nil, no controller being asked for; the
\* deferred delPidfile begins.  No error is returned after setupPIDFile.
EndRunOvnKube ==
    \E p \in Procs, end \in {"nil", "panic"}, made \in BOOLEAN :
        /\ procs[p].pc = "run"
        /\ end = "nil" => made
        /\ Becomes(p, [At(p, "deferStat") EXCEPT
                           !.end = end, !.stopChan = IF made THEN "open" ELSE "none"])
        /\ UNCHANGED <<OtherVarsIdle, pidfileExists, pidfileData, dirWritable>>

\* The rest of runOvnKube with a master, a node or the network controller
\* asked for and started: stopChan is made and handed to the watch factory,
\* and the main goroutine blocks in select {}.
ServeForever ==
    \E p \in Procs :
        /\ procs[p].pc = "run"
        /\ Becomes(p, [At(p, "serve") EXCEPT !.stopChan = "open"])
        /\ UNCHANGED <<OtherVarsIdle, pidfileExists, pidfileData, dirWritable>>

\* delPidfile, deferred: _, err := os.Stat(pidfile); err == nil
DeferredStat ==
    \E p \in Procs :
        /\ procs[p].pc = "deferStat"
        /\ Becomes(p, At(p, IF pidfileExists THEN "deferRemove" ELSE "exit"))
        /\ UNCHANGED <<OtherVarsIdle, pidfileExists, pidfileData, dirWritable>>

\* delPidfile, deferred: os.Remove(pidfile)
DeferredRemove ==
    \E p \in Procs :
        /\ procs[p].pc = "deferRemove"
        /\ RemovePidfile
        /\ Becomes(p, At(p, "exit"))
        /\ UNCHANGED <<OtherVarsIdle, dirWritable>>

\* main ends after runOvnKube.
ProcessExit ==
    \E p \in Procs :
        /\ procs[p].pc = "exit"
        /\ Becomes(p, Exits(p, ExitStatusOf(procs[p].end)))
        /\ UNCHANGED <<OtherVarsIdle, pidfileExists, pidfileData, dirWritable>>

\* An interrupt or SIGTERM arrives: <-c
Signal ==
    \E p \in Procs :
        /\ procs[p].pc # "dead" /\ procs[p].handler = "waiting"
        /\ Becomes(p, [procs[p] EXCEPT !.handler = "Stat"])
        /\ UNCHANGED <<OtherVarsIdle, pidfileExists, pidfileData, dirWritable>>

\* delPidfile in the signal goroutine: os.Stat(pidfile)
HandlerStat ==
    \E p \in Procs :
        /\ procs[p].pc # "dead" /\ procs[p].handler = "Stat"
        /\ Becomes(p, [procs[p] EXCEPT !.handler =
                           IF pidfileExists THEN "Remove" ELSE "Exit"])
        /\ UNCHANGED <<OtherVarsIdle, pidfileExists, pidfileData, dirWritable>>

\* delPidfile in the signal goroutine: os.Remove(pidfile)
HandlerRemove ==
    \E p \in Procs :
        /\ procs[p].pc # "dead" /\ procs[p].handler = "Remove"
        /\ RemovePidfile
        /\ Becomes(p, [procs[p] EXCEPT !.handler = "Exit"])
        /\ UNCHANGED <<OtherVarsIdle, dirWritable>>

\* os.Exit(1) in the signal goroutine
HandlerExit ==
    \E p \in Procs :
        /\ procs[p].pc # "dead" /\ procs[p].handler = "Exit"
        /\ Becomes(p, Exits(p, 1))
        /\ UNCHANGED <<OtherVarsIdle, pidfileExists, pidfileData, dirWritable>>

\* ------------------------------------------------ SpecPid: processes sharing a pidfile

\* What can be at the pidfile path when the first ovnkube starts: nothing,
\* the pid of a dead process, the pid of a process that is there, or a
\* file nothing was written to.
PidfilesAtStart ==
    { [exists |-> FALSE, data |-> <<>>],
      [exists |-> TRUE, data |-> Dec(StalePid)],
      [exists |-> TRUE, data |-> Dec(InitPid)],
      [exists |-> TRUE, data |-> <<>>] }

InitPidfile ==
    /\ AuthIdle /\ RunIdle /\ DBIdle /\ ConfIdle /\ files = {}
    /\ SubnetIdle /\ MgmtIdle /\ NodeIdle
    /\ \E f \in PidfilesAtStart : pidfileExists = f.exists /\ pidfileData = f.data
    /\ dirWritable \in BOOLEAN
    /\ procs = [p \in Procs |-> NoProc]

NextPid ==
    \/ StartOvnKube \/ StatPidfile \/ WriteNewPidfile \/ ReadPidfile
    \/ StatProcCmdline \/ WriteOverPidfile \/ EndRunOvnKube \/ ServeForever
    \/ DeferredStat \/ DeferredRemove \/ ProcessExit
    \/ Signal \/ HandlerStat \/ HandlerRemove \/ HandlerExit

SpecPid == InitPidfile /\ [][NextPid]_vars

\* ------------------------------------------------ SpecRun: main

\* What can go wrong after the configuration is read: the call that fails.
FailPoints ==
    {"none", "SetExec", "NewClientset", "NewWatchFactory", "StartClusterMaster",
     "StartClusterNode", "RebuildOVNDatabase", "Run"}

ErrNoToken == "Cannot initialize node without service account 'token'"

\* (*net.IPNet).String() for IPv4.
IPNetString(n) == Dotted(n.IP) \o <<"/">> \o Dec(n.Mask)

\* runOvnKube from the start of the controllers on, with the cluster
\* controller as configured: how it ends, the controllers it started and
\* the calls it made from there on.
runOvnKubeControllers(flags, token, fail, cc) ==
    LET cluster == flags.master \/ flags.node
        s1 == IF flags.master THEN {"master"} ELSE {}
        s2 == s1 \cup (IF flags.node THEN {"node"} ELSE {})
        s3 == s2 \cup (IF flags.netController THEN {"netController"} ELSE {})
        c1 == IF flags.master THEN <<"StartClusterMaster">> ELSE <<>>
        c2 == c1 \o (IF flags.node THEN <<"StartClusterNode">> ELSE <<>>)
        c3 == c2 \o (IF flags.netController THEN <<"NewOvnController">> ELSE <<>>)
        c4 == c3 \o (IF flags.netController /\ cluster /\ flags.ha
                     THEN <<"RebuildOVNDatabase">> ELSE <<>>)
        c5 == c4 \o (IF flags.netController THEN <<"Run">> ELSE <<>>)
        ends(how, ctl, msg, calls) ==
            [end |-> how, started |-> ctl, msg |-> msg, cc |-> cc, calls |-> calls]
    IN  IF flags.master /\ fail = "StartClusterMaster" THEN ends("panic", {}, fail, c1)
        ELSE IF flags.node /\ token = <<>> THEN ends("panic", s1, ErrNoToken, c1)
        ELSE IF flags.node /\ fail = "StartClusterNode" THEN ends("panic", s1, fail, c2)
        ELSE IF flags.netController /\ cluster /\ flags.ha /\ fail = "RebuildOVNDatabase"
             THEN ends("panic", s2, fail, c4)
        ELSE IF flags.netController /\ fail = "Run" THEN ends("panic", s2, fail, c5)
        ELSE IF flags.master \/ flags.netController \/ flags.node
             THEN ends("serve", s3, "", c5)
        ELSE ends("return", s3, "", c5)

\* The calls made so far, then what runOvnKube does from there on.
After(calls, r) == [r EXCEPT !.calls = calls \o @]

\* runOvnKube once cluster-subnet (entries) and service-cluster-ip-range
\* (services) are parsed, both read only when a master or a node is set up.
runOvnKubeCluster(flags, token, fail, entries, services) ==
    IF ~(flags.master \/ flags.node)
    THEN After(<<"NewClusterController">>,
               runOvnKubeControllers(flags, token, fail, NewClusterController))
    ELSE IF entries.err # ""
    THEN [end |-> "panic", started |-> {}, msg |-> entries.err, cc |-> NewClusterController,
          calls |-> <<"NewClusterController", "parseClusterSubnetEntries">>]
    ELSE IF flags.serviceSubnet = <<>>
    THEN After(<<"NewClusterController", "parseClusterSubnetEntries">>,
               runOvnKubeControllers(flags, token, fail,
                   [ClusterIPNet |-> entries.list, ClusterServicesSubnet |-> <<>>]))
    ELSE IF services.err # ""
    THEN [end |-> "panic", started |-> {}, msg |-> services.err,
          cc |-> [ClusterIPNet |-> entries.list, ClusterServicesSubnet |-> <<>>],
          calls |-> <<"NewClusterController", "parseClusterSubnetEntries", "ParseCIDR">>]
    ELSE After(<<"NewClusterController", "parseClusterSubnetEntries", "ParseCIDR">>,
               runOvnKubeControllers(flags, token, fail,
                   [ClusterIPNet |-> entries.list,
                    ClusterServicesSubnet |-> IPNetString(services.net)]))

\* runOvnKube from util.SetExec on, -pidfile not given, on Linux: how it
\* ends ("error": returns an error, "panic", "serve": select {}, "return":
\* returns nil), the controllers it started and the cluster controller.
runOvnKubeConfigured(flags, token, fail) ==
    IF fail = "SetExec"
    THEN [end |-> "error", started |-> {}, msg |-> "", cc |-> NewClusterController,
          calls |-> <<"SetExec">>]
    ELSE IF fail = "NewClientset"
    THEN [end |-> "panic", started |-> {}, msg |-> fail, cc |-> NewClusterController,
          calls |-> <<"SetExec", "NewClientset">>]
    ELSE IF fail = "NewWatchFactory"
    THEN [end |-> "panic", started |-> {}, msg |-> fail, cc |-> NewClusterController,
          calls |-> <<"SetExec", "NewClientset", "NewWatchFactory">>]
    ELSE After(<<"SetExec", "NewClientset", "NewWatchFactory">>,
               runOvnKubeCluster(flags, token, fail,
                                 parseClusterSubnetEntries(flags.clusterSubnet),
                                 ParseCIDR(flags.serviceSubnet)))

ErrSetExec == "Failed to initialize exec helper"

\* The command lines main is started with.
SSLURL == RenderList(<<Elem(<<"ssl">>, URLSep, IP1, TRUE, Port1)>>)
RunAddrs ==
    { <<>>, SSLURL,
      RenderList(<<Elem(<<"tcp">>, URLSep, IP1, TRUE, Port1)>>),
      RenderList(<<Elem(<<"tcp">>, URLSep, DNSName, TRUE, Port1)>>),
      RenderList(<<Elem(<<"gre">>, URLSep, IP1, TRUE, Port1)>>) }
RunCerts ==
    { <<<<>>, <<>>, <<>>>>, <<KeyPath, CertPath, CAPath>>, <<<<>>, CertPath, CAPath>>,
      <<KeyPath, <<>>, <<>>>> }
RunFiles ==
    { ZeroConfig,
      [ZeroConfig EXCEPT !.OvnNorth.ClientPrivKey = <<"/path/to/client-private.key">>] }

\* -cluster-subnet as given: its items (the flag's default value first).
RunClusterSubnets ==
    { <<SubnetItem(<<11, 11, 0, 0>>, 16, 0)>>,
      <<SubnetItem(<<10, 128, 0, 0>>, 14, 23)>>,
      <<SubnetItem(<<10, 128, 0, 0>>, 14, 23), SubnetItem(<<10, 130, 0, 0>>, 16, 0)>>,
      <<OddItem(Dotted(<<10, 0, 0, 0>>), 1)>> }

\* -service-cluster-ip-range as given; the first is the option left out.
RunServiceSubnets ==
    { OddItem(<<>>, 1),
      SubnetItem(<<10, 96, 0, 0>>, 12, 0),
      SubnetItem(<<10, 128, 0, 0>>, 16, 0),
      OddItem(Dotted(<<10, 0, 0, 0>>) \o Slash \o Dec(33), 2) }

InitRun ==
    /\ AuthIdle /\ DBIdle /\ CalleesIdle
    /\ \E a \in RunAddrs, t \in RunCerts, tok \in {<<>>, <<"cli-token">>} :
        cliConfig = [ZeroConfig EXCEPT !.OvnNorth.Address = a,
                                       !.OvnNorth.ClientPrivKey = t[1],
                                       !.OvnNorth.ClientCert = t[2],
                                       !.OvnNorth.ClientCACert = t[3],
                                       !.Kubernetes.Token = tok]
    /\ fileCfg \in RunFiles
    /\ confFileAt = IF fileCfg = ZeroConfig THEN <<>> ELSE DefaultConfigFile
    /\ configFileFlag = <<>> /\ confFileOK = TRUE
    /\ externalIDs = NoExternalIDs /\ ovsUp = TRUE /\ given = 0
    /\ files = {}
    /\ Default = InitialDefault /\ Logging = InitialLogging /\ CNI = InitialCNI
    /\ Kubernetes = InitialKubernetes
    /\ OvnNorth = ZeroOvnAuthConfig /\ OvnSouth = ZeroOvnAuthConfig
    /\ logOutput = <<"stderr">>
    /\ defaults = NoDefaults /\ initRet = NoInitRet
    /\ \E f \in [master : BOOLEAN, node : BOOLEAN, netController : BOOLEAN, ha : BOOLEAN],
          c \in RunClusterSubnets, sv \in RunServiceSubnets :
        runFlags = [master |-> f.master, node |-> f.node,
                    netController |-> f.netController, ha |-> f.ha,
                    clusterItems |-> c, clusterSubnet |-> RenderItems(c),
                    serviceItem |-> sv, serviceSubnet |-> sv.text]
    /\ pc = "main" /\ runErr = "" /\ started = {} /\ exitStatus = -1
    /\ runCalls = <<>>
    /\ panicMsg = "" /\ clusterController = NewClusterController

\* c.Run(os.Args) up to the point runOvnKube returns, panics or blocks.
CallRunOvnKube ==
    /\ pc = "main"
    /\ \E logOpens \in BOOLEAN :
        \E r \in {InitConfig(NoDefaults, logOpens)} :
        \E fail \in FailPoints :
        \E o \in {runOvnKubeConfigured(runFlags, r.Kubernetes.Token, fail)} :
            /\ defaults' = NoDefaults
            /\ Default' = r.Default /\ Logging' = r.Logging /\ CNI' = r.CNI
            /\ Kubernetes' = r.Kubernetes
            /\ OvnNorth' = r.OvnNorth /\ OvnSouth' = r.OvnSouth
            /\ logOutput' = r.logOutput
            /\ files' = r.files
            /\ initRet' = [done |-> TRUE, arg |-> <<>>, path |-> r.path, err |-> r.err]
            /\ IF r.err # ""
               THEN /\ pc' = "returned" /\ runErr' = r.err
                    /\ started' = {} /\ exitStatus' = -1
                    /\ runCalls' = <<"InitConfig">>
                    /\ panicMsg' = "" /\ clusterController' = NewClusterController
               ELSE /\ started' = o.started
                    /\ runCalls' = <<"InitConfig">> \o o.calls
                    /\ panicMsg' = (IF o.end = "panic" THEN o.msg ELSE "")
                    /\ clusterController' = o.cc
                    /\ runErr' = IF o.end = "error" THEN ErrSetExec ELSE ""
                    /\ pc' = CASE o.end = "panic" -> "exited"
                               [] o.end = "serve" -> "serving"
                               [] OTHER -> "returned"
                    /\ exitStatus' = IF o.end = "panic" THEN 2 ELSE -1
    /\ UNCHANGED <<authVars, calleeVars, dbVars, envVars, runFlags>>

\* main after c.Run: logrus.Fatal on an error, the end of main otherwise.
MainExit ==
    /\ pc = "returned"
    /\ pc' = "exited"
    /\ exitStatus' = IF runErr # "" THEN 1 ELSE 0
    /\ UNCHANGED <<authVars, calleeVars, dbVars, confVars, runFlags, runErr, started,
                   panicMsg, runCalls, clusterController>>

NextRun == CallRunOvnKube \/ MainExit

SpecRun == InitRun /\ [][NextRun]_vars

\* ------------------------------------------------ SpecDBAuth: SetDBAuth

\* The connection strings of the OvnDBAuth SetDBAuth is called on.
DBAddrs ==
    { <<>>,
      RenderList(<<Elem(<<"tcp">>, Colon, IP1, TRUE, Port1)>>),
      RenderList(<<Elem(<<"ssl">>, Colon, IP1, TRUE, Port1)>>),
      RenderList(<<Elem(<<"ssl">>, URLSep, IP1, TRUE, Port1),
                   Elem(<<"ssl">>, URLSep, IP2, TRUE, Port2)>>) }

\* What newOvnDBAuth makes of them for the two databases, as InitConfig
\* calls it.
DBAuthsBuilt ==
    { newOvnDBAuth(<<"ovn-", d[1], "ctl">>, <<"ovn-", d[2]>>, u, t[1], t[2], t[3]) :
        d \in {<<"nb", "nb">>, <<"sb", "remote">>}, u \in DBAddrs,
        t \in {<<<<>>, <<>>, <<>>>>, <<KeyPath, CertPath, CAPath>>} }
DBAuths == { r.auth : r \in { b \in DBAuthsBuilt : b.err = "" } }

OldRemote == RenderList(<<Elem(<<"tcp">>, Colon, IP2, TRUE, Port2)>>)
OldSSL    == <<<<"/old/privkey">>, <<"/old/cert">>, <<"/old/cacert">>>>

CommandOutcomes ==
    [bootstrap : BOOLEAN, delSSL : BOOLEAN, setSSL : BOOLEAN, setID : BOOLEAN]

InitDBAuth ==
    /\ AuthIdle /\ RunIdle /\ CalleesIdle
    /\ cliConfig = ZeroConfig /\ fileCfg = ZeroConfig
    /\ configFileFlag = <<>> /\ confFileAt = <<>> /\ confFileOK = TRUE
    /\ ovsUp = TRUE /\ given = 0
    /\ Default = InitialDefault /\ Logging = InitialLogging /\ CNI = InitialCNI
    /\ Kubernetes = InitialKubernetes
    /\ OvnNorth = ZeroOvnAuthConfig /\ OvnSouth = ZeroOvnAuthConfig
    /\ logOutput = <<"stderr">>
    /\ defaults = NoDefaults /\ initRet = NoInitRet
    /\ dbAuth \in DBAuths
    /\ files \in SUBSET OvnFiles
    /\ externalIDs \in { [NoExternalIDs EXCEPT ![k] = v] :
                            k \in {<<"ovn-", "nb">>, <<"ovn-", "remote">>},
                            v \in {<<>>, OldRemote} }
    /\ ovsSSL \in {<<>>, OldSSL}
    /\ cmds = <<>>
    /\ dbRet = [done |-> FALSE, err |-> ""]

\* One call of dbAuth.SetDBAuth().
CallSetDBAuth ==
    /\ ~dbRet.done
    /\ \E out \in CommandOutcomes :
        \E r \in {SetDBAuth(dbAuth, files, externalIDs, ovsSSL, out)} :
            /\ cmds' = r.cmds
            /\ files' = r.files
            /\ externalIDs' = r.ids
            /\ ovsSSL' = r.ssl
            /\ dbRet' = [done |-> TRUE, err |-> r.err]
    /\ UNCHANGED <<authVars, calleeVars, runVars, dbAuth, cliConfig, configFileFlag, confFileAt,
                   confFileOK, fileCfg, ovsUp, given, globals, defaults, initRet>>

NextDBAuth == CallSetDBAuth

SpecDBAuth == InitDBAuth /\ [][NextDBAuth]_vars

\* ------------------------------------------------ properties of newOvnDBAuth

Called   == ret.done
Accepted == ret.done /\ ret.err = "" /\ ~ret.auth.nil
Rejected == ret.done /\ ret.err # "" /\ ret.auth.nil

\* Every element is scheme://ip:port or scheme:ip:port.
IPPortElems(es) ==
    /\ Len(es) > 0
    /\ \A i \in 1..Len(es) :
        /\ es[i].host \in {IP1, IP2}
        /\ es[i].hasPort /\ es[i].port \in {Port1, Port2}
        /\ es[i].sep \in {Colon, URLSep}
        /\ Len(es[i].scheme) = 1

SchemesOf(es) == { es[i].scheme : i \in 1..Len(es) }

\* The list the user wrote, each element as scheme:ip:port, joined by commas.
RECURSIVE ClientForm(_)
ClientForm(es) ==
    IF Len(es) = 0 THEN <<>>
    ELSE LET one == es[1].scheme \o <<":">> \o es[1].host \o <<":">> \o es[1].port
         IN  IF Len(es) = 1 THEN one ELSE one \o <<",">> \o ClientForm(Tail(es))

AllCerts == privkey # <<>> /\ cert # <<>> /\ cacert # <<>>
NoCerts  == privkey = <<>> /\ cert = <<>> /\ cacert = <<>>

\* C2: a list of scheme://ip:port and scheme:ip:port elements that
\* newOvnDBAuth accepts gives an OvnAddressForClient that is the same
\* elements, in the same order, each as scheme:ip:port, joined by commas; and
\* such a list is accepted when all its elements say tcp and no certificate
\* is given, or all say ssl and the three certificate paths are given.
C2_Normalised ==
    (Called /\ IPPortElems(ovnAddrs)) =>
        /\ Accepted => ret.auth.OvnAddressForClient = ClientForm(ovnAddrs)
        /\ (SchemesOf(ovnAddrs) = {<<"tcp">>} /\ NoCerts) => Accepted
        /\ (SchemesOf(ovnAddrs) = {<<"ssl">>} /\ AllCerts) => Accepted

C2_Witness ==
    /\ Accepted /\ Len(ovnAddrs) = 2
    /\ ovnAddrs[1].sep = URLSep /\ ovnAddrs[2].sep = Colon
    /\ ovnAddrs[1].host # ovnAddrs[2].host
    /\ ret.auth.OvnAddressForClient = ClientForm(ovnAddrs)

C5_MixedRejected ==
    (Called /\ Cardinality(SchemesOf(ovnAddrs)) > 1) => Rejected

\* C7: a returned OvnDBAuth has Scheme unix exactly when the address is
\* empty, all three of PrivKey, Cert and CACert when its Scheme is ssl and
\* none of them when it is tcp or unix; a key, certificate or CA certificate
\* given with a tcp address or with an empty address is rejected.
C7_AuthInvariant ==
    /\ Accepted =>
        /\ ret.auth.Scheme = OvnDBSchemeUnix <=> urlString = <<>>
        /\ ret.auth.Scheme = OvnDBSchemeUnix <=> ret.auth.OvnAddressForClient = <<>>
        /\ ret.auth.Scheme \in {OvnDBSchemeUnix, OvnDBSchemeSSL, OvnDBSchemeTCP}
        /\ ret.auth.Scheme = OvnDBSchemeSSL =>
              ret.auth.PrivKey # <<>> /\ ret.auth.Cert # <<>> /\ ret.auth.CACert # <<>>
        /\ ret.auth.Scheme \in {OvnDBSchemeTCP, OvnDBSchemeUnix} =>
              ret.auth.PrivKey = <<>> /\ ret.auth.Cert = <<>> /\ ret.auth.CACert = <<>>
    /\ (Called /\ ~NoCerts /\ (urlString = <<>> \/ SchemesOf(ovnAddrs) = {<<"tcp">>}))
          => Rejected

C7_Witness ==
    /\ Rejected /\ ret.err = ErrCertGiven
    /\ IPPortElems(ovnAddrs) /\ SchemesOf(ovnAddrs) = {<<"tcp">>}
    /\ privkey = <<>> /\ cert # <<>>

\* ------------------------------------------------ properties of InitConfig

Succeeded == initRet.done /\ initRet.err = ""
Failed    == initRet.done /\ initRet.err # ""

\* The config file is the one InitConfig reads.
FileRead ==
    /\ confFileAt # <<>> /\ confFileOK
    /\ \/ initRet.arg = confFileAt
       \/ initRet.arg = <<>> /\ configFileFlag = confFileAt
       \/ initRet.arg = <<>> /\ configFileFlag = <<>> /\ confFileAt = DefaultConfigFile

FromFile == IF FileRead THEN fileCfg ELSE ZeroConfig

\* Command line before config file before anything else.
PickInt(sec, f, other) ==
    IF cliConfig[sec][f] # 0 THEN cliConfig[sec][f]
    ELSE IF FromFile[sec][f] # 0 THEN FromFile[sec][f]
    ELSE other

PickStr(sec, f, other) ==
    IF cliConfig[sec][f] # <<>> THEN cliConfig[sec][f]
    ELSE IF FromFile[sec][f] # <<>> THEN FromFile[sec][f]
    ELSE other

\* What discovery finds under a key of external_ids.
Discovered(key) == IF ovsUp THEN externalIDs[key] ELSE <<>>

\* The elements a connection string that was offered is made of.
OfferedAddrs == CliAddrs \cup FileAddrs \cup ExtAddrs
ElemsOf(address) == CHOOSE es \in OfferedAddrs : RenderList(es) = address

\* The connection string a database is configured with, as it was written.
WrittenAddress(sec) ==
    PickStr(sec, "Address",
            IF sec = "OvnNorth" /\ defaults.OvnNorthAddress
            THEN Discovered(<<"ovn-", "nb">>) ELSE <<>>)

\* The same in the form scheme:ip:port,...
NormalAddress(sec) ==
    IF WrittenAddress(sec) = <<>> THEN <<>> ELSE ClientForm(ElemsOf(WrittenAddress(sec)))

ClientAuthOf(sec) == IF sec = "OvnNorth" THEN OvnNorth.ClientAuth ELSE OvnSouth.ClientAuth
DirectionOf(sec)  == IF sec = "OvnNorth" THEN "nb" ELSE "sb"

\* The fields every source agrees the same way on.
PlainPrecedence ==
    /\ Default.MTU = PickInt("Default", "MTU", 1400)
    /\ Default.ConntrackZone = PickInt("Default", "ConntrackZone", 64000)
    /\ Logging.Level = PickInt("Logging", "Level", 4)
    /\ Logging.File = PickStr("Logging", "File", <<>>)
    /\ CNI.ConfDir = PickStr("CNI", "ConfDir", <<"/etc/cni/net.d">>)
    /\ CNI.Plugin = PickStr("CNI", "Plugin", <<"ovn-k8s-cni-overlay">>)
    /\ Kubernetes.Kubeconfig = PickStr("Kubernetes", "Kubeconfig", <<>>)
    /\ Kubernetes.APIServer =
          PickStr("Kubernetes", "APIServer",
                  IF defaults.K8sAPIServer THEN Discovered(<<"k8s-api-server">>)
                  ELSE <<"http", ":", "/", "/", "localhost", ":", "8080">>)
    /\ Kubernetes.CACert =
          PickStr("Kubernetes", "CACert",
                  IF defaults.K8sCert THEN Discovered(<<"k8s-ca-certificate">>) ELSE <<>>)
    /\ Kubernetes.Token =
          PickStr("Kubernetes", "Token",
                  IF defaults.K8sToken THEN Discovered(<<"k8s-api-token">>) ELSE <<>>)
    /\ \A sec \in OvnSections :
        /\ ClientAuthOf(sec).OvnAddressForClient = NormalAddress(sec)
        /\ ClientAuthOf(sec).Scheme = OvnDBSchemeUnix <=> WrittenAddress(sec) = <<>>

SSLDefault(sec, name) ==
    IF ClientAuthOf(sec).Scheme = OvnDBSchemeSSL
    THEN <<"/etc/openvswitch/ovn", DirectionOf(sec), name>>
    ELSE <<>>

GivenAddress(sec) == PickStr(sec, "Address", <<>>)

\* Some element has a host that is not a numeric IP address, or has no port.
BadHostOrPort(es) ==
    \E i \in 1..Len(es) :
        es[i].host \notin {IP1, IP2} \/ ~es[i].hasPort \/ es[i].port = <<>>

\* The hosts of a client address scheme:host:port,...
HostsOf(address) ==
    LET parts == Split(address, ",")
    IN  { Split(parts[i], ":")[2] : i \in 1..Len(parts) }

\* C6: a connection string, from the command line or from the config file,
\* with an element whose host is not a numeric IP address or that lacks a
\* port makes InitConfig fail; after a success every host of
\* OvnAddressForClient is a numeric IP address.
C6_HostAndPort ==
    /\ \A sec \in OvnSections :
        (initRet.done /\ GivenAddress(sec) # <<>>
            /\ BadHostOrPort(ElemsOf(GivenAddress(sec)))) => Failed
    /\ \A sec \in OvnSections :
        (Succeeded /\ ClientAuthOf(sec).OvnAddressForClient # <<>>) =>
            HostsOf(ClientAuthOf(sec).OvnAddressForClient) \subseteq {IP1, IP2}

\* An ssl connection string of ip:port elements with the three paths given.
SSLWithCerts(sec) ==
    /\ WrittenAddress(sec) # <<>>
    /\ IPPortElems(ElemsOf(WrittenAddress(sec)))
    /\ SchemesOf(ElemsOf(WrittenAddress(sec))) = {<<"ssl">>}
    /\ PickStr(sec, "ClientPrivKey", <<>>) # <<>>
    /\ PickStr(sec, "ClientCert", <<>>) # <<>>
    /\ PickStr(sec, "ClientCACert", <<>>) # <<>>

\* Nothing is configured for the database.
NothingGiven(sec) ==
    /\ WrittenAddress(sec) = <<>>
    /\ PickStr(sec, "ClientPrivKey", <<>>) = <<>>
    /\ PickStr(sec, "ClientCert", <<>>) = <<>>
    /\ PickStr(sec, "ClientCACert", <<>>) = <<>>

\* The errors InitConfig returns before it looks at the databases.
PreOvnErrors ==
    {ErrOpenConfig, ErrParseConfig, ErrKubeconfig, ErrKubeCACert, ErrAPIServer,
     ErrAPIScheme}

\* C8: with an ssl address and the three of client-privkey, client-cert and
\* client-cacert given for the northbound or the southbound database, on the
\* command line or in the config file, and nothing wrong elsewhere,
\* InitConfig succeeds whichever of the three files are on disk.
C8_FilesNotChecked ==
    (/\ initRet.done
     /\ \E sec \in OvnSections : SSLWithCerts(sec)
     /\ \A sec \in OvnSections : SSLWithCerts(sec) \/ NothingGiven(sec)
     /\ initRet.err \notin PreOvnErrors)
        => /\ Succeeded
           /\ \A sec \in OvnSections :
                SSLWithCerts(sec) => ClientAuthOf(sec).Scheme = OvnDBSchemeSSL

C8_Witness ==
    /\ Succeeded
    /\ SSLWithCerts("OvnSouth")
    /\ FromFile.OvnSouth.Address # <<>>
    /\ cliConfig.OvnSouth.ClientPrivKey = KeyPath
    /\ KeyPath \notin files /\ CertPath \in files /\ CAPath \in files

\* ------------------------------------------------ properties of main

\* -nb-address=ssl://1.2.3.4:6641 with no private key, on the command line
\* or in the config file.
SSLNoPrivKey ==
    /\ cliConfig.OvnNorth.Address = SSLURL
    /\ cliConfig.OvnNorth.ClientPrivKey = <<>>
    /\ FromFile.OvnNorth.ClientPrivKey = <<>>

SetDBAuthRuns == ~dbRet.done /\ dbRet'.done

SouthboundSSL ==
    dbAuth.ctlCmd = <<"ovn-", "sb", "ctl">> /\ dbAuth.Scheme = OvnDBSchemeSSL

\* A command without its outcome.
Invocation(c) == [cmd |-> c.cmd, args |-> c.args]
Invocations(cs) == [i \in 1..Len(cs) |-> Invocation(cs[i])]

\* The four commands of the claim, for the auth SetDBAuth is called on.
CABootstrap ==
    [cmd  |-> <<"ovn-", "nb", "ctl">>,
     args |-> <<<<"--db=">> \o dbAuth.OvnAddressForClient, <<"--timeout=5">>,
                <<"--private-key=">> \o dbAuth.PrivKey,
                <<"--certificate=">> \o dbAuth.Cert,
                <<"--bootstrap-ca-cert=">> \o dbAuth.CACert,
                <<"list">>, <<"nb_global">>>>]
DelSSL ==
    [cmd |-> <<"ovs-vsctl">>, args |-> <<<<"--timeout=15">>, <<"del-ssl">>>>]
SetSSL ==
    [cmd  |-> <<"ovs-vsctl">>,
     args |-> <<<<"--timeout=15">>, <<"set-ssl">>, dbAuth.PrivKey, dbAuth.Cert,
                dbAuth.CACert>>]
SetRemote ==
    [cmd  |-> <<"ovs-vsctl">>,
     args |-> <<<<"--timeout=15">>, <<"set">>, <<"Open_vSwitch">>, <<".">>,
                <<"external_ids:", "ovn-", "remote", "=", "\"">>
                    \o dbAuth.OvnAddressForClient \o <<"\"">>>>]

\* All of them, in the order of the claim, given the files there are.
SouthboundSSLCommands ==
    (IF dbAuth.CACert \in files THEN <<>> ELSE <<CABootstrap>>)
        \o <<DelSSL, SetSSL, SetRemote>>

\* C9: SetDBAuth on a southbound ssl OvnDBAuth runs a beginning of: the CA
\* bootstrap (only when the CA file is absent), ovs-vsctl del-ssl, ovs-vsctl
\* set-ssl <privkey> <cert> <cacert>, ovs-vsctl set external_ids:ovn-remote;
\* it runs nothing when the private key or the certificate file is
\* missing, it stops before the end only after a del-ssl or set-ssl that
\* failed, and ovn-remote is set only after a del-ssl and a set-ssl that
\* worked.
C9_CommandOrder ==
    [][ (SetDBAuthRuns /\ SouthboundSSL) =>
          LET all == SouthboundSSLCommands
              n   == Len(cmds')
          IN  /\ n <= Len(all)
              /\ Invocations(cmds') = SubSeq(all, 1, n)
              /\ (dbAuth.PrivKey \notin files \/ dbAuth.Cert \notin files) => n = 0
              /\ (dbAuth.PrivKey \in files /\ dbAuth.Cert \in files) => n >= Len(all) - 2
              /\ (n > 0 /\ n < Len(all)) =>
                    /\ Invocation(cmds'[n]) \in {DelSSL, SetSSL}
                    /\ ~cmds'[n].ok
              /\ n = Len(all) =>
                    /\ cmds'[n - 2].ok /\ cmds'[n - 1].ok
                    /\ ovsSSL' = <<dbAuth.PrivKey, dbAuth.Cert, dbAuth.CACert>>
              /\ n < Len(all) =>
                    /\ dbRet'.err # ""
                    /\ externalIDs' = externalIDs
       ]_vars

\* The CA file was absent, the bootstrap did not produce it, and all of
\* del-ssl, set-ssl and the setting of ovn-remote ran.
C9_Witness ==
    /\ dbRet.done /\ dbRet.err = "" /\ SouthboundSSL
    /\ Len(cmds) = 4 /\ ~cmds[1].ok
    /\ Invocations(cmds) = <<CABootstrap, DelSSL, SetSSL, SetRemote>>
    /\ externalIDs[<<"ovn-", "remote">>] = dbAuth.OvnAddressForClient

\* C10 as stated: after SetDBAuth returned nil the external-id of the auth
\* is its GetURL(), for every scheme.
C10_AsStated ==
    (dbRet.done /\ dbRet.err = "") =>
        externalIDs[dbAuth.externalID] = dbAuth.OvnAddressForClient

\* C10: when SetDBAuth returns nil on an ssl or tcp auth, the external-id
\* of the auth (ovn-nb, ovn-remote) is its client address, whatever it was
\* before, and no other external-id is touched; on a unix auth SetDBAuth
\* returns nil and leaves every external-id as it was.
C10_ExternalID ==
    [][ (SetDBAuthRuns /\ dbRet'.err = "") =>
          IF dbAuth.Scheme = OvnDBSchemeUnix
          THEN externalIDs' = externalIDs /\ cmds' = <<>>
          ELSE /\ dbAuth.externalID \in {<<"ovn-", "nb">>, <<"ovn-", "remote">>}
               /\ externalIDs'[dbAuth.externalID] = dbAuth.OvnAddressForClient
               /\ \A k \in ExtKeys \ {dbAuth.externalID} :
                     externalIDs'[k] = externalIDs[k]
       ]_vars

\* The northbound ssl auth with two addresses, over an older value.
C10_Witness ==
    /\ dbRet.done /\ dbRet.err = ""
    /\ dbAuth.Scheme = OvnDBSchemeSSL /\ dbAuth.externalID = <<"ovn-", "nb">>
    /\ IndexOf(dbAuth.OvnAddressForClient, ",") # 0
    /\ externalIDs[<<"ovn-", "nb">>] = dbAuth.OvnAddressForClient
    /\ externalIDs[<<"ovn-", "nb">>] # OldRemote

\* ------------------------------------------------ properties of parseClusterSubnetEntries

SubnetsParsed   == subnetRet.done /\ subnetRet.err = ""
SubnetsRejected == subnetRet.done /\ subnetRet.err # ""

\* The ones of a mask of n ones that fall into byte k.
PrefixBits(n, k) ==
    LET left == n - 8 * (k - 1)
    IN  IF left < 0 THEN 0 ELSE IF left > 8 THEN 8 ELSE left

\* The first and the last address of the block ip/mask.
FirstAddress(ip, mask) ==
    [k \in 1..4 |-> ip[k] - (ip[k] % 2^(8 - PrefixBits(mask, k)))]
LastAddress(ip, mask) ==
    [k \in 1..4 |-> FirstAddress(ip, mask)[k] + 2^(8 - PrefixBits(mask, k)) - 1]

\* a <= b as addresses.
AddressLeq(a, b) ==
    \/ a = b
    \/ \E k \in 1..4 : a[k] < b[k] /\ \A j \in 1..(k - 1) : a[j] = b[j]

\* Some address lies in both blocks.
ShareAddress(ip1, mask1, ip2, mask2) ==
    /\ AddressLeq(FirstAddress(ip1, mask1), LastAddress(ip2, mask2))
    /\ AddressLeq(FirstAddress(ip2, mask2), LastAddress(ip1, mask1))

ItemsShareAddress(i, j) ==
    /\ subnetItems[i].formed /\ subnetItems[j].formed
    /\ ShareAddress(subnetItems[i].ip, subnetItems[i].mask,
                    subnetItems[j].ip, subnetItems[j].mask)

\* C11: an option in which two entries share an address is rejected,
\* whichever of the two comes first, and no two CIDRs of a returned list
\* share an address.
C11_NonOverlapping ==
    subnetRet.done =>
        /\ (\E i, j \in 1..Len(subnetItems) : i # j /\ ItemsShareAddress(i, j))
              => subnetRet.err # ""
        /\ subnetRet.err = "" =>
              \A i, j \in 1..Len(subnetRet.list) :
                  i # j => ~ShareAddress(subnetRet.list[i].CIDR.IP, subnetRet.list[i].CIDR.Mask,
                                         subnetRet.list[j].CIDR.IP, subnetRet.list[j].CIDR.Mask)

\* The second of two entries lies inside the first and is refused for it.
C11_Witness ==
    /\ subnetRet.done /\ subnetRet.err = ErrSubnetOverlap
    /\ Len(subnetItems) = 2
    /\ ItemsShareAddress(1, 2)
    /\ subnetItems[1].mask < subnetItems[2].mask

\* C12: every entry of a returned list has a host subnet length of at least
\* its prefix length plus 1.
C12_HostLength ==
    SubnetsParsed =>
        \A i \in 1..Len(subnetRet.list) :
            subnetRet.list[i].HostSubnetLength >= subnetRet.list[i].CIDR.Mask + 1

\* C13: a returned list is non-empty and has one entry per item, in the
\* order of the items; IP/mask gets host subnet length 24, IP/mask/len gets
\* len; an item of another number of fields is rejected.
C13_OnePerItem ==
    subnetRet.done =>
        /\ (\E i \in 1..Len(subnetItems) : subnetItems[i].fields \notin {2, 3})
              => subnetRet.err # ""
        /\ subnetRet.err = "" =>
              /\ Len(subnetRet.list) >= 1
              /\ Len(subnetRet.list) = Len(subnetItems)
              /\ \A i \in 1..Len(subnetItems) :
                    /\ subnetItems[i].formed
                    /\ subnetRet.list[i].CIDR.Mask = subnetItems[i].mask
                    /\ subnetRet.list[i].CIDR.IP =
                          FirstAddress(subnetItems[i].ip, subnetItems[i].mask)
                    /\ subnetRet.list[i].HostSubnetLength =
                          IF subnetItems[i].fields = 2 THEN 24 ELSE subnetItems[i].len

\* Three entries are returned, with and without a host subnet length given.
C13_Witness ==
    /\ SubnetsParsed /\ Len(subnetRet.list) = 3
    /\ \E i, j \in 1..3 :
          /\ subnetItems[i].fields = 2 /\ subnetRet.list[i].HostSubnetLength = 24
          /\ subnetItems[j].fields = 3 /\ subnetRet.list[j].HostSubnetLength = 23

\* ------------------------------------------------ properties of main: subnets, exit status

\* -service-cluster-ip-range names a block that shares an address with an
\* entry of -cluster-subnet.
ServiceOverlapsCluster ==
    /\ runFlags.serviceItem.formed
    /\ \E i \in 1..Len(runFlags.clusterItems) :
          /\ runFlags.clusterItems[i].formed
          /\ ShareAddress(runFlags.clusterItems[i].ip, runFlags.clusterItems[i].mask,
                          runFlags.serviceItem.ip, runFlags.serviceItem.mask)

\* C14: with a service-cluster-ip-range that shares an address with a
\* cluster-subnet entry, no master and no node controller is started.
C14_ServicesDisjoint ==
    (pc # "main" /\ ServiceOverlapsCluster) => started \cap {"master", "node"} = {}

\* The configuration errors that are fatal at startup.
ConfigErrors ==
    {ErrInvalidCIDR, ErrSubnetFormat, ErrSyntax, ErrSubnetOverlap,
     ErrUnknownScheme, ErrNotIP, ErrSSLNeedsCerts}

\* C16: a process that ends on a configuration error ends with exit
\* status 1.
C16_ExitOne ==
    (pc = "exited" /\ (runErr \in ConfigErrors \/ panicMsg \in ConfigErrors))
        => exitStatus = 1

\* ------------------------------------------------ properties of CreateManagementPort

MgmtDone == mgmtRet.done

\* ip plus a small offset, carried into the third byte.
AddressPlus(ip, offset) ==
    [ip EXCEPT ![3] = ip[3] + ((ip[4] + offset) \div 256), ![4] = (ip[4] + offset) % 256]

\* The commands run that carry the router's or the management port's
\* address, by what they are.
IsLspAdd(c)    == c.cmd = "ovn-nbctl" /\ Len(c.args) = 9 /\ c.args[3] = <<"lsp-add">>
IsAddrAdd(c)   == c.cmd = "ip" /\ c.args[1] = <<"addr">> /\ c.args[2] = <<"add">>
IsRouteAdd(c)  == c.cmd = "ip" /\ c.args[1] = <<"route">> /\ c.args[2] = <<"add">>
IsNeighAdd(c)  == c.cmd = "ip" /\ c.args[1] = <<"neigh">>

\* Every command run uses router as the router's address and port as the
\* management port's address, on the logical switch port k8s-<node> and
\* on the host interface.
UsesAddresses(router, port) ==
    \A i \in 1..Len(mgmtCmds) :
        LET c == mgmtCmds[i]
        IN  /\ IsLspAdd(c) =>
                /\ c.args[5] = <<"k8s-">> \o ToLower(mgmtArgs.nodeName)
                /\ c.args[9] = MAC1 \o <<" ">> \o Dotted(port)
            /\ IsAddrAdd(c) =>
                c.args[3] = Dotted(port) \o <<"/">> \o Dec(mgmtArgs.localItem.mask)
            /\ IsRouteAdd(c) => c.args[5] = Dotted(router)
            /\ IsNeighAdd(c) => c.args[3] = Dotted(router)

HostSubnet(i) ==
    AddressPlus(FirstAddress(mgmtArgs.localItem.ip, mgmtArgs.localItem.mask), i)

UpdateReturnedNil == updRet.done /\ updRet.err = ""

\* <scheme>:<masterIP>:<port> with the scheme and the port of the one
\* address es, the empty string for no address.
WithMasterIP(es) ==
    IF es = <<>> THEN <<>>
    ELSE es[1].scheme \o <<":">> \o nodeArgs.masterIP \o <<":">> \o es[1].port

\* C17: after UpdateOvnNodeAuth(masterIP) returned nil, each client address
\* is <scheme>:<masterIP>:<port> with the scheme and port it had, and an
\* empty address is still empty.
C17_MasterAddress ==
    UpdateReturnedNil =>
        /\ OvnNorth.ClientAuth.OvnAddressForClient = WithMasterIP(nodeArgs.north)
        /\ OvnSouth.ClientAuth.OvnAddressForClient = WithMasterIP(nodeArgs.south)

\* ------------------------------------------------ properties of InitConfig: Kubernetes, config file

\* The value of a Kubernetes field in effect: command line, then config
\* file, then what discovery found when it was asked for, then the
\* built-in value.
EffectiveKubernetes(f, asked, key) ==
    PickStr("Kubernetes", f, IF asked THEN Discovered(key) ELSE InitialKubernetes[f])

EffectiveKubeconfig == EffectiveKubernetes("Kubeconfig", FALSE, <<>>)
EffectiveCACert ==
    EffectiveKubernetes("CACert", defaults.K8sCert, <<"k8s-ca-certificate">>)
EffectiveAPIServer ==
    EffectiveKubernetes("APIServer", defaults.K8sAPIServer, <<"k8s-api-server">>)

\* The API server URLs offered that parse and have scheme http or https.
GoodAPIServers ==
    { LocalAPIServer, URL("https", IP2, "8080"), URL("https", IP1, "6443"),
      URL("https", IP1, "8443") }

KubeconfigMissing == EffectiveKubeconfig # <<>> /\ EffectiveKubeconfig \notin files
KubeCACertMissing == EffectiveCACert # <<>> /\ EffectiveCACert \notin files
APIServerBad      == EffectiveAPIServer \notin GoodAPIServers

\* C18: InitConfig returns an error when the kubeconfig or the CA
\* certificate in effect names a file that does not exist, or the API
\* server in effect does not parse or has a scheme other than http and
\* https.
C18_KubernetesErrors ==
    (initRet.done /\ (KubeconfigMissing \/ KubeCACertMissing \/ APIServerBad))
        => initRet.err # ""

\* The kubeconfig of the command line does not exist while the one of the
\* config file, which it overrides, does.
C18_Witness ==
    /\ Failed /\ initRet.err = ErrKubeconfig
    /\ FileRead
    /\ cliConfig.Kubernetes.Kubeconfig # <<>>
    /\ fileCfg.Kubernetes.Kubeconfig \in files

\* The offending API server comes from the config file alone.
FileAPIServerRejected ==
    /\ Failed /\ initRet.err = ErrAPIScheme
    /\ FileRead
    /\ cliConfig.Kubernetes.APIServer = <<>>
    /\ fileCfg.Kubernetes.APIServer = URL("gggggg", <<"localhost">>, "8443")

\* The config file named explicitly: by the argument, else by -config-file.
ExplicitConfigFile == IF initRet.arg # <<>> THEN initRet.arg ELSE configFileFlag

\* C19: a successful call returns the config file path when it was named
\* explicitly and the empty string when the default path was used; an
\* explicitly named file that cannot be opened is an error, a default file
\* that cannot be opened is not: the call goes on as with an empty file.
C19_ConfigPath ==
    initRet.done =>
        /\ Succeeded => initRet.path = ExplicitConfigFile
        /\ Failed => initRet.path = <<>>
        /\ (ExplicitConfigFile # <<>> /\ confFileAt # ExplicitConfigFile)
              => initRet.err = ErrOpenConfig
        /\ (ExplicitConfigFile = <<>> /\ confFileAt # DefaultConfigFile)
              => /\ initRet.err \notin {ErrOpenConfig, ErrParseConfig}
                 /\ Succeeded => Default.MTU = PickInt("Default", "MTU", DefaultMTU)

\* The argument alone names the config file, which is read and returned.
C19_Witness ==
    /\ Succeeded
    /\ initRet.arg = GivenConfigFile /\ configFileFlag = <<>>
    /\ initRet.path = GivenConfigFile
    /\ FileRead /\ fileCfg.Default.MTU # 0 /\ Default.MTU = fileCfg.Default.MTU

\* ------------------------------------------------ properties of setupPIDFile

\* The main goroutine of p, which has received no signal, takes the step
\* at statement l.
MainStep(p, l) ==
    /\ procs[p].pc = l /\ procs[p].handler = "waiting"
    /\ procs'[p].pc # l

\* The text is the pid of a process that has started and not exited.
NamesLiveProcess(text) ==
    \/ text = <<"1">>
    \/ \E q \in Procs : text = Dec(q) /\ procs[q].handler # "off" /\ procs[q].exit = -1

\* The text is a pid, and no process has it.
NamesDeadProcess(text) == text # <<>> /\ ~NamesLiveProcess(text)

HoldsPidOf(p) == pidfileExists /\ pidfileData = Dec(p)

\* The existence check sends p to the branch the claim names; with the pid
\* of a live process read, p exits with status 1 and the pidfile is as it
\* was; with the pid of a dead process read, p goes on to write.
ChecksAsStated(p) ==
    /\ MainStep(p, "Stat") =>
          procs'[p].pc = IF pidfileExists THEN "ReadFile" ELSE "WriteNew"
    /\ (MainStep(p, "StatProc") /\ NamesLiveProcess(procs[p].pid)) =>
          /\ procs'[p].pc = "dead" /\ procs'[p].exit = 1
          /\ UNCHANGED <<pidfileExists, pidfileData>>
    /\ (MainStep(p, "StatProc") /\ NamesDeadProcess(procs[p].pid)) =>
          procs'[p].pc = "WriteOver"

\* C20 as stated: a pidfile that does not exist is created holding the
\* caller's pid; with the pid of a live process in it the caller exits with
\* status 1 and the pidfile is unchanged; with the pid of a dead process in
\* it the pidfile is overwritten with the caller's pid and the caller
\* continues.
C20_AsStated ==
    [][\A p \in Procs :
          /\ ChecksAsStated(p)
          /\ (MainStep(p, "WriteNew") \/ MainStep(p, "WriteOver")) =>
                /\ HoldsPidOf(p)'
                /\ procs'[p].pc = "run" /\ procs'[p].exit = -1]_vars

\* C20: as stated when the pidfile can be written; a write that fails is
\* ignored, the pidfile stays absent or keeps the old pid, and the caller
\* continues all the same.
C20_Acquire ==
    [][\A p \in Procs :
          /\ ChecksAsStated(p)
          /\ (MainStep(p, "WriteNew") \/ MainStep(p, "WriteOver")) =>
                /\ dirWritable => HoldsPidOf(p)'
                /\ ~dirWritable => UNCHANGED <<pidfileExists, pidfileData>>
                /\ procs'[p].pc = "run" /\ procs'[p].exit = -1]_vars

\* One process has taken over the pidfile of a dead process and runs; the
\* other read the pid of the first and exited with status 1 without a
\* signal.
C20_Witness ==
    \E p, q \in Procs :
        /\ procs[p].pc = "run" /\ procs[p].pid = Dec(StalePid) /\ HoldsPidOf(p)
        /\ procs[q].pc = "dead" /\ procs[q].exit = 1 /\ procs[q].handler = "waiting"
        /\ procs[q].pid = Dec(p)

\* A process continues although the pidfile it found absent could not be
\* created.
ContinuesWithoutPidfile ==
    \E p \in Procs :
        procs[p].pc = "run" /\ procs[p].pid = <<>> /\ ~pidfileExists /\ ~dirWritable

\* ------------------------------------------------ properties of main: signals, the pidfile

\* C21: a process that serves ends, on a signal, with the stop channel
\* closed and with exit status 0.
C21_CleanShutdown ==
    [][\A p \in Procs :
          (procs[p].pc = "serve" /\ procs'[p].pc = "dead") =>
              procs'[p].stopChan = "closed" /\ procs'[p].exit = 0]_vars

\* The process has returned from setupPIDFile with nil and has not ended.
PastSetup(p) == procs[p].pc \in {"run", "serve"}

\* No signal has been delivered to any process.
NoSignal == \A p \in Procs : procs[p].handler \in {"off", "waiting"}

\* C26: of the processes started with one pidfile at most one is past
\* setupPIDFile while the others are alive, and the pidfile then holds its
\* pid; the pidfile can be written and no signal is delivered.
C26_MutualExclusion ==
    (dirWritable /\ NoSignal) =>
        \A p \in Procs :
            PastSetup(p) =>
                /\ \A q \in Procs \ {p} : ~PastSetup(q)
                /\ (\A q \in Procs \ {p} : procs[q].exit = -1) => HoldsPidOf(p)

\* The step is an os.Remove by p that deletes the pidfile.
Removes(p) ==
    /\ pidfileExists /\ ~pidfileExists'
    /\ \/ procs[p].pc = "deferRemove" /\ procs'[p].pc = "exit"
       \/ procs[p].handler = "Remove" /\ procs'[p].handler = "Exit"

\* The process has not come to the point where it writes its pid, or has
\* returned from setupPIDFile with the error of ioutil.ReadFile.
NotWritten(p) ==
    \/ procs[p].pc \in {"Stat", "WriteNew", "ReadFile", "StatProc", "WriteOver"}
    \/ procs[p].end = "err"

WrittenByAnother(p) == \E q \in Procs \ {p} : pidfileData = Dec(q)

\* C27: a process that has not written its pid never deletes a pidfile
\* another process wrote, whether it found the pidfile owned, could not
\* read it, or received a signal.
C27_OwnPidfileOnly ==
    [][\A p \in Procs : (Removes(p) /\ NotWritten(p)) => ~WrittenByAnother(p)]_vars

\* C28: once a process has terminated there is no pidfile left with the
\* pid it wrote.
C28_PidfileGone ==
    \A p \in Procs : procs[p].pc = "dead" => ~HoldsPidOf(p)

\* ------------------------------------------------ properties of main: the order of the calls

RunEnded == pc \in {"returned", "serving", "exited"}

\* Where the call is in runCalls, 0 when it was not made.
Position(c) ==
    IF \E i \in 1..Len(runCalls) : runCalls[i] = c
    THEN CHOOSE i \in 1..Len(runCalls) : runCalls[i] = c
    ELSE 0

Made(c) == Position(c) > 0

\* b was made only after a.
Earlier(a, b) == Made(b) => (Made(a) /\ Position(a) < Position(b))

LastCall == runCalls[Len(runCalls)]

\* The configuration is read first, and the client and the watch factory
\* are made only when that succeeded.
ConfigFirst ==
    /\ Len(runCalls) > 0 /\ runCalls[1] = "InitConfig"
    /\ Made("NewClientset") => initRet.err = ""
    /\ Earlier("NewClientset", "NewWatchFactory")

\* The master, then the node, then the network controller.
ControllersInOrder ==
    /\ (runFlags.master /\ Made("StartClusterNode")) =>
          Earlier("StartClusterMaster", "StartClusterNode")
    /\ runFlags.master => Earlier("StartClusterMaster", "NewOvnController")
    /\ runFlags.node => Earlier("StartClusterNode", "NewOvnController")
    /\ Made("StartClusterNode") => Kubernetes.Token # <<>>

\* Nothing is called after a call that failed.
StopsAtFailure ==
    /\ initRet.err # "" => runCalls = <<"InitConfig">>
    /\ runErr = ErrSetExec => LastCall = "SetExec"
    /\ panicMsg \in FailPoints => LastCall = panicMsg
    /\ panicMsg = ErrNoToken => ~Made("StartClusterNode") /\ ~Made("NewOvnController")
    /\ (panicMsg # "" /\ panicMsg \notin FailPoints /\ panicMsg # ErrNoToken) =>
          LastCall \in {"parseClusterSubnetEntries", "ParseCIDR"}
    /\ (runErr # "" \/ panicMsg # "") => started \subseteq {"master", "node"}

\* C23: InitConfig, then the client and the watch factory, then the master,
\* then the node, then the network controller; with -ha RebuildOVNDatabase
\* before the controller's Run; nothing after a failure; no node while the
\* token is empty.
C23_StartOrder ==
    RunEnded =>
        /\ ConfigFirst /\ ControllersInOrder /\ StopsAtFailure
        /\ runFlags.ha => Earlier("RebuildOVNDatabase", "Run")

\* The same with RebuildOVNDatabase expected only when -init-master or
\* -init-node is given along with -ha.
StartOrderWithCluster ==
    RunEnded =>
        /\ ConfigFirst /\ ControllersInOrder /\ StopsAtFailure
        /\ (runFlags.ha /\ (runFlags.master \/ runFlags.node)) =>
              Earlier("RebuildOVNDatabase", "Run")
        /\ Made("RebuildOVNDatabase") => runFlags.ha

\* -net-controller -ha without a master or a node: Run without
\* RebuildOVNDatabase.
RunWithoutRebuild ==
    /\ pc = "serving" /\ runFlags.ha /\ runFlags.netController
    /\ Made("Run") /\ ~Made("RebuildOVNDatabase")

\* ------------------------------------------------ properties of InitConfig: sources without a value

\* What discovery supplies for a Kubernetes field: the external-id when it
\* was asked for and found, else the built-in value, which stays.
DiscoveredOrBuiltIn(f, asked, key) ==
    IF asked /\ Discovered(key) # <<>> THEN Discovered(key) ELSE InitialKubernetes[f]

\* The Kubernetes field in effect when no source without a value replaces
\* the value of a source below it.
KeptKubernetes(f, asked, key) ==
    PickStr("Kubernetes", f, DiscoveredOrBuiltIn(f, asked, key))

KeptAPIServer == KeptKubernetes("APIServer", defaults.K8sAPIServer, <<"k8s-api-server">>)

\* C24: a source with no value for a field leaves the value of the source
\* below it in effect; with discovery of the API server asked for and no
\* k8s-api-server external-id the built-in API server stays and InitConfig
\* does not fail on the API server.
C24_NoValueKeepsLower ==
    initRet.done =>
        /\ Succeeded =>
            /\ Default.MTU = PickInt("Default", "MTU", DefaultMTU)
            /\ Logging.Level = PickInt("Logging", "Level", DefaultLogLevel)
            /\ CNI.Plugin = PickStr("CNI", "Plugin", InitialCNI.Plugin)
            /\ Kubernetes.APIServer = KeptAPIServer
            /\ Kubernetes.Token =
                  KeptKubernetes("Token", defaults.K8sToken, <<"k8s-api-token">>)
            /\ Kubernetes.CACert =
                  KeptKubernetes("CACert", defaults.K8sCert, <<"k8s-ca-certificate">>)
        /\ KeptAPIServer = LocalAPIServer => initRet.err \notin {ErrAPIServer, ErrAPIScheme}

\* Discovery of the API server is asked for, finds nothing, and neither the
\* config file nor the command line names one: InitConfig fails.
DiscoveryEmptiesAPIServer ==
    /\ Failed /\ initRet.err = ErrAPIScheme
    /\ defaults.K8sAPIServer /\ Discovered(<<"k8s-api-server">>) = <<>>
    /\ PickStr("Kubernetes", "APIServer", <<>>) = <<>>

\* C24 but for discovery: the command line and the config file leave the
\* value below them when they have none.
FlagsAndFileKeepLower ==
    Succeeded =>
        /\ Default.MTU = PickInt("Default", "MTU", DefaultMTU)
        /\ Logging.Level = PickInt("Logging", "Level", DefaultLogLevel)
        /\ CNI.Plugin = PickStr("CNI", "Plugin", InitialCNI.Plugin)
        /\ ~defaults.K8sAPIServer =>
              Kubernetes.APIServer = PickStr("Kubernetes", "APIServer", LocalAPIServer)

\* The globals hold what they held before InitConfig was called.
GlobalsAsBefore ==
    /\ Default = InitialDefault /\ Logging = InitialLogging /\ CNI = InitialCNI
    /\ Kubernetes = InitialKubernetes
    /\ OvnNorth = ZeroOvnAuthConfig /\ OvnSouth = ZeroOvnAuthConfig

\* C29: when InitConfig returns an error the globals hold what they held
\* before the call.
C29_ErrorLeavesGlobals == Failed => GlobalsAsBefore

\* The globals are as before when the config file could not be opened or
\* parsed.
FileErrorLeavesGlobals ==
    (Failed /\ initRet.err \in {ErrOpenConfig, ErrParseConfig}) => GlobalsAsBefore

\* -mtu given and a kubeconfig that does not exist: the call fails and the
\* MTU is changed.
ErrorAfterOverride ==
    /\ Failed /\ initRet.err = ErrKubeconfig
    /\ cliConfig.Default.MTU # 0 /\ Default.MTU = cliConfig.Default.MTU

\* ------------------------------------------------ properties of UpdateOvnNodeAuth: errors

\* The client addresses before the call.
NorthBefore == NodeAuth("nb", "nb", nodeArgs.north).OvnAddressForClient
SouthBefore == NodeAuth("sb", "remote", nodeArgs.south).OvnAddressForClient

\* C30: UpdateOvnNodeAuth returns nil, or returns an error and leaves the
\* client addresses of OvnNorth and OvnSouth as they were.
C30_AllOrNothing ==
    (updRet.done /\ updRet.err # "") =>
        /\ OvnNorth.ClientAuth.OvnAddressForClient = NorthBefore
        /\ OvnSouth.ClientAuth.OvnAddressForClient = SouthBefore

\* One northbound address and two southbound ones: the call fails on the
\* second database with the first one changed.
SouthFailsAfterNorth ==
    /\ updRet.done /\ updRet.err = ErrUpdateSouth
    /\ Len(nodeArgs.north) = 1 /\ Len(nodeArgs.south) = 2
    /\ OvnNorth.ClientAuth.OvnAddressForClient # NorthBefore
    /\ OvnSouth.ClientAuth.OvnAddressForClient = SouthBefore

\* ------------------------------------------------ properties of CreateManagementPort: the order of the steps

\* b is the step after a: the next one of the order, or the route flush of
\* the next subnet after a route add; a route add is for the subnet just
\* flushed.
StepAfter(a, b) ==
    /\ \/ Step(b) = Step(a) + 1
       \/ Step(a) = 10 /\ Step(b) = 9
    /\ Step(a) = 9 => b.args[3] = a.args[3]

\* The subnets routes are set for, in order.
RoutedSubnets ==
    mgmtArgs.clusterSubnet
    \o (IF mgmtArgs.clusterServicesSubnet # <<>>
        THEN <<mgmtArgs.clusterServicesSubnet>> ELSE <<>>)

\* The subnets of the route adds run, in order.
RouteAddsRun == SelectSeq(mgmtCmds, IsRouteAdd)
RouteSubnetsRun == [i \in 1..Len(RouteAddsRun) |-> RouteAddsRun[i].args[3]]

LspAddFailed == \E i \in 1..Len(mgmtCmds) : IsLspAdd(mgmtCmds[i]) /\ ~mgmtCmds[i].ok

\* C25: the commands run are a start of the order of the steps, from the
\* creation of br-int on, with the routes in the order of the subnets; a
\* command that failed is the last one run; with the MAC read as "[]" the
\* logical switch port is not added, and with the logical switch port not
\* added no address and no route is set on the host; a call that returns
\* nil ran all the steps.
C25_StepOrder ==
    (MgmtDone /\ mgmtArgs.localItem.formed) =>
        /\ mgmtCmds # <<>> /\ Step(mgmtCmds[1]) = 1
        /\ \A i \in 1..(Len(mgmtCmds) - 1) :
              mgmtCmds[i].ok /\ StepAfter(mgmtCmds[i], mgmtCmds[i + 1])
        /\ \E n \in 0..Len(RoutedSubnets) : RouteSubnetsRun = SubSeq(RoutedSubnets, 1, n)
        /\ mgmtRet.err = ErrNoMac =>
              /\ Len(mgmtCmds) = 3
              /\ \A i \in 1..Len(mgmtCmds) : ~IsLspAdd(mgmtCmds[i])
        /\ LspAddFailed =>
              /\ mgmtRet.err # ""
              /\ \A i \in 1..Len(mgmtCmds) : Step(mgmtCmds[i]) <= 4
        /\ mgmtRet.err = "" =>
              /\ Step(mgmtCmds[Len(mgmtCmds)]) = 11
              /\ RouteSubnetsRun = RoutedSubnets

\* A call where the addition of the logical switch port failed.
C25_Witness ==
    /\ MgmtDone /\ mgmtArgs.localItem.formed
    /\ LspAddFailed /\ Len(mgmtCmds) = 4

\* A call that read "[]" as the MAC of the management interface.
MacNotRead ==
    /\ MgmtDone /\ mgmtRet.err = ErrNoMac
    /\ Len(mgmtCmds) = 3 /\ \A i \in 1..3 : mgmtCmds[i].ok

\* A call stopped by a route add that failed, with a subnet left.
RouteAddFailed ==
    /\ MgmtDone /\ mgmtRet.err = ErrCommand
    /\ IsRouteAdd(mgmtCmds[Len(mgmtCmds)]) /\ ~mgmtCmds[Len(mgmtCmds)].ok
    /\ Len(RouteSubnetsRun) < Len(RoutedSubnets)

\* A call that returns nil although ip neigh add failed.
NeighAddFailureIgnored ==
    /\ MgmtDone /\ mgmtRet.err = ""
    /\ ~mgmtCmds[Len(mgmtCmds)].ok

\* ------------------------------------------------ properties of CreateManagementPort: a second call

\* The management interface of the node and the addresses of the router
\* and of the management port.
MgmtInterface == <<"k8s-">> \o ToLower(mgmtArgs.nodeName)
MgmtRouterIP == Dotted(AddressPlus(mgmtArgs.localItem.ip, 1))
MgmtPortIP == Dotted(AddressPlus(mgmtArgs.localItem.ip, 2))

\* The node has the integration bridge with the management interface, the
\* logical switch port k8s-<node> with its addresses, the one address of
\* the interface, and one route by the router for every cluster subnet and
\* for the services subnet.
Provisioned(host) ==
    /\ <<"br-int">> \in host.bridges
    /\ \E q \in host.ports : q.name = MgmtInterface /\ q.bridge = <<"br-int">>
    /\ \E l \in host.lsps :
          /\ l.name = MgmtInterface /\ l.switch = ToLower(mgmtArgs.nodeName)
          /\ l.addresses = MAC1 \o <<" ">> \o MgmtPortIP
    /\ MgmtInterface \in host.up
    /\ {a \in host.addrs : a.dev = MgmtInterface}
         = {[dev |-> MgmtInterface,
             addr |-> MgmtPortIP \o <<"/">> \o Dec(mgmtArgs.localItem.mask)]}
    /\ host.routes = {[dst |-> RoutedSubnets[i], via |-> MgmtRouterIP] :
                         i \in 1..Len(RoutedSubnets)}

\* The node has the neighbour entry of the router.
RouterNeighbour(host) ==
    [ip |-> MgmtRouterIP, dev |-> MgmtInterface, lladdr |-> MAC2] \in host.neighs

\* The second call was made with the commands behaving as in the first.
AgainAsBefore == mgmtAgain.done /\ mgmtAgain.failAt = FailedBefore

\* C22: after a call that returned nil, a second call with the same
\* arguments and the commands behaving as in the first returns nil and
\* leaves the node as the first call left it: the bridge and the
\* management interface, the logical switch port and its addresses, the
\* address of the interface, the routes and the neighbour entry.
C22_Idempotent ==
    (AgainAsBefore /\ mgmtRet.err = "") =>
        /\ mgmtAgain.err = ""
        /\ mgmtHost = mgmtAgain.before
        /\ Provisioned(mgmtHost)
        /\ FailedBefore = 0 => RouterNeighbour(mgmtHost)

\* Two calls that returned nil, the second one running every command with
\* the neighbour entry of the first call there.
C22_Witness ==
    /\ AgainAsBefore /\ mgmtRet.err = "" /\ FailedBefore = 0
    /\ mgmtAgain.err = "" /\ Len(mgmtAgain.cmds) = Len(mgmtCmds)
    /\ ~mgmtAgain.cmds[Len(mgmtAgain.cmds)].ok
    /\ RouterNeighbour(mgmtAgain.before)

\* A first call that returned nil with ip neigh add failed, and a second
\* call where it does not fail: the second call adds the neighbour entry.
SecondCallAddsNeighbour ==
    /\ mgmtAgain.done /\ mgmtRet.err = "" /\ FailedBefore # 0 /\ mgmtAgain.failAt = 0
    /\ mgmtAgain.err = ""
    /\ ~RouterNeighbour(mgmtAgain.before) /\ RouterNeighbour(mgmtHost)

====
